---------------------------- MODULE Spec2Model ----------------------------
(***************************************************************************)
(* Voxel Warfare: the enemy store (stores/enemyStore.ts), the enemy AI     *)
(* controller (systems/ai.ts), the Enemy component that steps the AI every *)
(* frame and writes the result back (Enemy, components/game/Scene.tsx),    *)
(* and the part of the player store the AI touches                         *)
(* (stores/playerStore.ts).                                                *)
(*                                                                         *)
(* Conventions of the model                                                *)
(*  - lengths are integers in 1/Scale of a world unit, so that every       *)
(*    threshold of the code (1.1 * attackRange, 1.5 * detectionRange, the  *)
(*    0.01 rotation epsilon) is an integer and distance tests are exact    *)
(*    comparisons of squares; Vector3.normalize is fixed point (NormTo);   *)
(*  - times (frame delta, cooldown and alert timers, Date.now, the respawn *)
(*    timeout) are integers in milliseconds;                               *)
(*  - raw damage is carried doubled (raw2 = 2 * damage), because a critical*)
(*    pistol hit is 15 * 2.5 = 37.5;                                       *)
(*  - a rotation (yaw, atan2(x, z)) is carried as the heading it denotes.  *)
(***************************************************************************)
EXTENDS Integers, Sequences, FiniteSets, TLC

\* ------------------------------------------------------------------ types

ZOMBIE == "zombie"
BANDIT == "bandit"
EnemyType == {ZOMBIE, BANDIT}

IDLE == "idle"
PATROL == "patrol"
ALERT == "alert"
CHASE == "chase"
ATTACK == "attack"
FLEE == "flee"
DEAD == "dead"
AIState == {IDLE, PATROL, ALERT, CHASE, ATTACK, FLEE, DEAD}

\* the value of `target`: null or the player id
NoTarget == "null"
PlayerTarget == "player"

\* ENEMY_CONFIGS; attackSpeed is carried in attacks per 10 seconds (0.8/s = 8)
ENEMY_CONFIGS ==
  [t \in EnemyType |->
     IF t = ZOMBIE
     THEN [maxHealth |-> 100, speed |-> 3, damage |-> 15, attackRange |-> 2,
           detectionRange |-> 15, attackSpeed |-> 8, defense |-> 5]
     ELSE [maxHealth |-> 80, speed |-> 4, damage |-> 8, attackRange |-> 5,
           detectionRange |-> 18, attackSpeed |-> 10, defense |-> 3]]

\* WEAPONS (types/weapons.ts); attackSpeed in attacks per 10 s, reloadTime in
\* ms, critChance in percent, critMultiplier in tenths (0 stands for an unset
\* optional field)
WEAPONS ==
  [sword |-> [id |-> "sword", type |-> "melee", damage |-> 25, range |-> 2,
              attackSpeed |-> 15, staminaCost |-> 10, ammo |-> 0, maxAmmo |-> 0,
              totalAmmo |-> 0, reloadTime |-> 0, critChance |-> 15,
              critMultiplier |-> 20],
   pistol |-> [id |-> "pistol", type |-> "ranged", damage |-> 15, range |-> 50,
               attackSpeed |-> 30, staminaCost |-> 0, ammo |-> 12, maxAmmo |-> 12,
               totalAmmo |-> 60, reloadTime |-> 1500, critChance |-> 10,
               critMultiplier |-> 25]]

\* ---------------------------------------------------------------- bounds

\* 1 world unit = Scale length units of the model
Scale == 100
\* the fixed-point length of a normalized heading
HeadingScale == 1000
\* spawnEnemy is called at most MaxSpawns times
MaxSpawns == 2
\* at most MaxEvents events arrive from outside the store: animation frames
\* begun, damageEnemy calls and removeEnemy calls
MaxEvents == 3

\* --------------------------------------------------------------- geometry

Vec(x, y, z) == [x |-> x, y |-> y, z |-> z]

Abs(n) == IF n < 0 THEN -n ELSE n

Max(a, b) == IF a >= b THEN a ELSE b

\* a / b rounded to the nearest integer (b > 0)
DivRound(a, b) == IF a >= 0 THEN (2 * a + b) \div (2 * b)
                  ELSE -((2 * (-a) + b) \div (2 * b))

RECURSIVE IsqrtFrom(_, _)
IsqrtFrom(n, r) == LET s == (r + n \div r) \div 2
                   IN IF s >= r THEN r ELSE IsqrtFrom(n, s)

\* floor of the square root (Newton's iteration from above)
Isqrt(n) == IF n <= 0 THEN 0 ELSE IsqrtFrom(n, n)

\* Vector3.subVectors(a, b)
SubVectors(a, b) == Vec(a.x - b.x, a.y - b.y, a.z - b.z)

LengthSq(v) == v.x * v.x + v.y * v.y + v.z * v.z

\* the square of Vector3.distanceTo
DistSq(a, b) == LengthSq(SubVectors(a, b))

\* a.distanceTo(b) < r, a.distanceTo(b) <= r, a.distanceTo(b) > r, with r in length units
DistLt(a, b, r) == DistSq(a, b) < r * r
DistLe(a, b, r) == DistSq(a, b) <= r * r
DistGt(a, b, r) == DistSq(a, b) > r * r

\* Vector3.normalize().multiplyScalar(len): v scaled to length len; the zero
\* vector stays zero (three.js divides by length() || 1)
NormTo(v, len) ==
  LET l == Isqrt(LengthSq(v))
  IN IF l = 0 THEN Vec(0, 0, 0)
     ELSE Vec(DivRound(v.x * len, l), DivRound(v.y * len, l), DivRound(v.z * len, l))

\* Math.atan2(x, z), as the heading in the x-z plane it denotes; atan2(0, 0) = 0
\* is the heading of +z
Atan2(x, z) ==
  LET l == Isqrt(x * x + z * z)
  IN IF l = 0 \/ (x = 0 /\ z > 0) THEN [hx |-> 0, hz |-> HeadingScale]
     ELSE [hx |-> DivRound(x * HeadingScale, l), hz |-> DivRound(z * HeadingScale, l)]


\* ----------------------------------------------------- systems/ai.ts: EnemyAI

\* the result of one EnemyAI.update: the controller's record after the step and
\* the amount passed to the player store's takeDamage (0: no attack landed)
Step(e, hit) == [enemy |-> e, hit |-> hit]

\* transitionToState making the enemy ready to attack when it enters ATTACK
transitionReadyToAttack(e, newState) ==
  IF e.state = newState THEN e
  ELSE LET e1 == [e EXCEPT !.state = newState]
       IN CASE newState = ALERT -> [e1 EXCEPT !.alertTime = 1000]
            [] newState = CHASE -> [e1 EXCEPT !.target = PlayerTarget]
            [] newState = PATROL -> [e1 EXCEPT !.target = NoTarget]
            [] newState = ATTACK -> [e1 EXCEPT !.attackCooldown = 0]
            [] OTHER -> e1

\* transitionToState(newState), with its state entry logic
transitionToState(e, newState) ==
  IF e.state = newState THEN e
  ELSE LET e1 == [e EXCEPT !.state = newState]
       IN CASE newState = ALERT -> [e1 EXCEPT !.alertTime = 1000]
            [] newState = CHASE -> [e1 EXCEPT !.target = PlayerTarget]
            [] newState = PATROL -> [e1 EXCEPT !.target = NoTarget]
            [] OTHER -> e1

\* checkForPlayer going to ALERT without setting the target
checkForPlayerUntargeted(e, p) ==
  IF DistLt(e.position, p, e.stats.detectionRange * Scale)
  THEN transitionToState(e, ALERT)
  ELSE e

\* checkForPlayer(): update() has assigned playerPosition from the player store,
\* so the `!this.playerPosition` branches of the handlers are never taken
checkForPlayer(e, p) ==
  IF DistLt(e.position, p, e.stats.detectionRange * Scale)
  THEN transitionToState([e EXCEPT !.target = PlayerTarget], ALERT)
  ELSE e

\* an enemy that cannot move
moveTowardsNowhere(e, target, delta, speed2) == e

\* moveTowards(target, delta, speed); speed2 is twice the speed (the code moves
\* at 0.5, 1 and 1.5 times stats.speed).  `movement` is `direction` itself after
\* multiplyScalar, so the 0.01 test is on the length of the movement.
moveTowards(e, target, delta, speed2) ==
  LET movement == NormTo(SubVectors(target, e.position), (speed2 * delta * Scale) \div 2000)
      moved == [e EXCEPT !.position = Vec(e.position.x + movement.x,
                                          e.position.y + movement.y,
                                          e.position.z + movement.z)]
  IN IF 10000 * LengthSq(movement) > Scale * Scale
     THEN [moved EXCEPT !.rotation = Atan2(movement.x, movement.z)]
     ELSE moved

\* idle only looking for the player
idleUntilSeen(e, p) == checkForPlayer(e, p)

idle(e, p) == checkForPlayer(transitionToState(e, PATROL), p)

\* patrol advancing the index at any distance from the patrol point
patrolAdvancesAnywhere(e, p, delta) ==
  checkForPlayer([e EXCEPT !.currentPatrolIndex =
                             (e.currentPatrolIndex + 1) % Len(e.patrolPoints)], p)

\* patrol looking for the player from where the step starts
patrolLookingFirst(e, p, delta) ==
  LET targetPoint == e.patrolPoints[e.currentPatrolIndex + 1]
      e1 == IF DistLt(e.position, targetPoint, Scale)
            THEN [e EXCEPT !.currentPatrolIndex =
                              (e.currentPatrolIndex + 1) % Len(e.patrolPoints)]
            ELSE moveTowards(e, targetPoint, delta, e.stats.speed)
  IN IF DistLt(e.position, p, e.stats.detectionRange * Scale)
     THEN transitionToState([e1 EXCEPT !.target = PlayerTarget], ALERT)
     ELSE e1

patrol(e, p, delta) ==
  LET targetPoint == e.patrolPoints[e.currentPatrolIndex + 1]
      e1 == IF DistLt(e.position, targetPoint, Scale)
            THEN [e EXCEPT !.currentPatrolIndex =
                              (e.currentPatrolIndex + 1) % Len(e.patrolPoints)]
            ELSE moveTowards(e, targetPoint, delta, e.stats.speed)
  IN checkForPlayer(e1, p)

\* alert without the assignment of alertTime, so that the timer runs out
alertTimesOut(e, p) ==
  LET e2 == IF DistLt(e.position, p, e.stats.detectionRange * Scale)
            THEN transitionToState(e, CHASE)
            ELSE e
  IN IF e2.alertTime <= 0 THEN transitionToState(e2, PATROL) ELSE e2

alert(e, p) ==
  LET e1 == [e EXCEPT !.alertTime = 1000]
      e2 == IF DistLt(e1.position, p, e1.stats.detectionRange * Scale)
            THEN transitionToState(e1, CHASE)
            ELSE e1
  IN IF e2.alertTime <= 0 THEN transitionToState(e2, PATROL) ELSE e2

\* health < maxHealth * 0.2
LowHealth(e) == 5 * e.stats.health < e.stats.maxHealth

\* chase testing the attack range before the health
chaseAttackFirst(e, p, delta) ==
  IF DistLe(e.position, p, e.stats.attackRange * Scale)
  THEN transitionToState(e, ATTACK)
  ELSE IF LowHealth(e) THEN transitionToState(e, FLEE)
  ELSE IF DistGt(e.position, p, (3 * e.stats.detectionRange * Scale) \div 2)
  THEN transitionToState([e EXCEPT !.target = NoTarget], PATROL)
  ELSE moveTowards(e, p, delta, 2 * e.stats.speed)

\* chase closing in at the patrol's half speed
chaseAtHalfSpeed(e, p, delta) ==
  IF LowHealth(e) THEN transitionToState(e, FLEE)
  ELSE IF DistLe(e.position, p, e.stats.attackRange * Scale)
  THEN transitionToState(e, ATTACK)
  ELSE IF DistGt(e.position, p, (3 * e.stats.detectionRange * Scale) \div 2)
  THEN transitionToState([e EXCEPT !.target = NoTarget], PATROL)
  ELSE moveTowards(e, p, delta, e.stats.speed)

chase(e, p, delta) ==
  IF LowHealth(e) THEN transitionToState(e, FLEE)
  ELSE IF DistLe(e.position, p, e.stats.attackRange * Scale)
  THEN transitionToState(e, ATTACK)
  ELSE IF DistGt(e.position, p, (3 * e.stats.detectionRange * Scale) \div 2)
  THEN transitionToState([e EXCEPT !.target = NoTarget], PATROL)
  ELSE moveTowards(e, p, delta, 2 * e.stats.speed)

\* performAttack(): the amount handed to takeDamage, 0 when the attack misses
\* performAttack dealing the damage at any distance
performAttackAtAnyRange(e, p) == e.stats.damage

performAttack(e, p) ==
  IF DistGt(e.position, p, e.stats.attackRange * Scale) THEN 0 ELSE e.stats.damage

\* attack resetting the cooldown only when the attack has landed
attackRefundingMiss(e, p) ==
  IF DistGt(e.position, p, (11 * e.stats.attackRange * Scale) \div 10)
  THEN Step(transitionToState(e, CHASE), 0)
  ELSE IF LowHealth(e) THEN Step(transitionToState(e, FLEE), 0)
  ELSE LET direction == NormTo(SubVectors(p, e.position), HeadingScale)
           e1 == [e EXCEPT !.rotation = Atan2(direction.x, direction.z)]
       IN IF e1.attackCooldown <= 0 /\ performAttack(e1, p) > 0
          THEN Step([e1 EXCEPT !.attackCooldown = 10000 \div e1.stats.attackSpeed],
                    performAttack(e1, p))
          ELSE Step(e1, 0)

attack(e, p) ==
  IF DistGt(e.position, p, (11 * e.stats.attackRange * Scale) \div 10)
  THEN Step(transitionToState(e, CHASE), 0)
  ELSE IF LowHealth(e) THEN Step(transitionToState(e, FLEE), 0)
  ELSE LET direction == NormTo(SubVectors(p, e.position), HeadingScale)
           e1 == [e EXCEPT !.rotation = Atan2(direction.x, direction.z)]
       IN IF e1.attackCooldown <= 0
          THEN Step([e1 EXCEPT !.attackCooldown = 10000 \div e1.stats.attackSpeed],
                    performAttack(e1, p))
          ELSE Step(e1, 0)

flee(e, p, delta) ==
  LET fleeDirection == NormTo(SubVectors(e.position, p), 10 * Scale)
      fleeTarget == Vec(e.position.x + fleeDirection.x, e.position.y + fleeDirection.y,
                        e.position.z + fleeDirection.z)
      e1 == moveTowards(e, fleeTarget, delta, 3 * e.stats.speed)
  IN IF \/ DistGt(e1.position, p, 2 * e1.stats.detectionRange * Scale)
        \/ 2 * e1.stats.health > e1.stats.maxHealth
     THEN transitionToState(e1, PATROL)
     ELSE e1

\* EnemyAI.update(delta) on the controller's record e, the player at p
update(e, p, delta) ==
  IF e.state = DEAD THEN Step(e, 0)
  ELSE LET e1 == IF e.attackCooldown > 0
                 THEN [e EXCEPT !.attackCooldown = e.attackCooldown - delta]
                 ELSE e
           e2 == IF e1.alertTime > 0
                 THEN [e1 EXCEPT !.alertTime = e1.alertTime - delta]
                 ELSE e1
       IN CASE e2.state = IDLE -> Step(idle(e2, p), 0)
            [] e2.state = PATROL -> Step(patrol(e2, p, delta), 0)
            [] e2.state = ALERT -> Step(alert(e2, p), 0)
            [] e2.state = CHASE -> Step(chase(e2, p, delta), 0)
            [] e2.state = ATTACK -> attack(e2, p)
            [] e2.state = FLEE -> Step(flee(e2, p, delta), 0)


\* ------------------------------------------------------------------ state

VARIABLES
  enemies,          \* enemyStore.enemies: the Map from id to EnemyData
  damageEvents,     \* enemyStore.damageEvents
  enemyIdCounter,   \* the module-level counter of spawnEnemy
  timers,           \* the pending setTimeout callbacks of damageEnemy, in due order
  now,              \* Date.now(), ms since the page was loaded
  playerPosition,   \* playerStore.position
  playerHealth,     \* playerStore.health
  comps,            \* the mounted Enemy components: id -> what the last render
                    \* closed over (renderedState) and aiRef.current's record (ai)
  inFrame,          \* an animation frame is running its useFrame callbacks
  frameDelta,       \* the delta of the running frame
  frameDone,        \* the Enemy components whose callback has run in this frame
  lastOp,           \* history: the operation of the last step and its arguments
  issued,           \* history: the ids spawnEnemy has returned, in order
  deaths,           \* history: id -> number of damageEnemy calls that brought its
                    \* health from above 0 to 0
  fired,            \* history: id -> number of respawn timers that have fired
  respawned,        \* history: ids respawned and not passed to damageEnemy since
  frames,           \* history: number of frames begun
  events,           \* history: number of frames begun, damageEnemy and removeEnemy calls
  projectiles,      \* playerStore.projectiles, each with the state of its Projectile
                    \* component
  combat,           \* history: the inputs and the outcome of the last melee swing
                    \* or projectile frame
  shots,            \* history: number of spawnProjectile calls
  removals,         \* history: projectile id -> number of removeProjectile calls
  currentWeapon,    \* playerStore.currentWeapon
  weapons,          \* playerStore.weapons
  attackCooldown,   \* playerStore.attackCooldown, in ms
  isReloading,      \* playerStore.isReloading
  stamina,          \* playerStore.stamina
  reloadTimers,     \* the pending setTimeout callbacks of reload, in due order
  prev,             \* the WeaponController's refs prevWeaponSlot1, prevWeaponSlot2
                    \* and prevReload
  weaponFrame       \* history: the inputs and the outcome of the WeaponController's
                    \* last frame callback

storeVars == <<enemies, damageEvents, enemyIdCounter, timers>>
playerVars == <<playerPosition, playerHealth>>
frameVars == <<inFrame, frameDelta, frameDone>>
countVars == <<issued, deaths, fired, respawned, frames, events>>
combatVars == <<projectiles, combat, shots, removals>>
weaponVars == <<currentWeapon, weapons, attackCooldown, isReloading, stamina,
                reloadTimers, prev, weaponFrame>>
vars == <<enemies, damageEvents, enemyIdCounter, timers, now, playerPosition,
          playerHealth, comps, inFrame, frameDelta, frameDone, lastOp, issued,
          deaths, fired, respawned, frames, events, projectiles, combat, shots,
          removals, currentWeapon, weapons, attackCooldown, isReloading, stamina,
          reloadTimers, prev, weaponFrame>>

\* ----------------------------------------------------------------- inputs

\* the delay of the respawn timeout
RespawnDelay == 30000

\* the frame deltas tried: a 50 fps frame and a slow one
Deltas == {20, 500}

\* (type, position) of the spawnEnemy calls tried: two of the Scene's
SpawnInputs == {<<ZOMBIE, Vec(20 * Scale, Scale, 0)>>,
                <<BANDIT, Vec(14 * Scale, Scale, 14 * Scale)>>}

\* the player's initial position, and one next to the first spawn point
PlayerStart == Vec(0, 2 * Scale, 0)
PlayerPositions == {PlayerStart, Vec(19 * Scale, 2 * Scale, 0)}

\* (2 * damage, isCritical) of the damageEnemy calls tried: a critical pistol
\* hit (15 * 2.5), and a damage of 125 that kills either type at once
DamageInputs == {<<75, TRUE>>, <<250, FALSE>>}

\* the ids spawnEnemy can produce within MaxSpawns calls: `enemy-${type}-${n}`
EnemyId(type, n) == <<type, n>>
Ids == {EnemyId(t, n) : t \in EnemyType, n \in 0..MaxSpawns}

\* an id spawnEnemy never returns (the counter is incremented before use)
NeverId == EnemyId(ZOMBIE, 0)

\* lastOp: the operation, the id it was called with, the damage arguments, and
\* whether the call returned without changing the store
Op(name, id, raw2, crit, ignored) ==
  [op |-> name, id |-> id, raw2 |-> raw2, crit |-> crit, ignored |-> ignored]

\* combat before any swing or projectile frame
NoCombat == [kind |-> "none"]

\* the most shots fired in a run
MaxShots == 2

\* the ids of the projectiles, in the order they are spawned (the code takes
\* Date.now() + Math.random(), which differs from shot to shot)
ProjectileIds == 1..MaxShots

\* removals before any removeProjectile call
NoRemovals == [id \in ProjectileIds |-> 0]

\* ------------------------------------------------- stores/enemyStore.ts

\* the patrol points of spawnEnemy: 4 points on a circle of radius 10 around
\* the spawn position, at angles 0, 90, 180 and 270 degrees
PatrolPoints(position) ==
  LET patrolRadius == 10 * Scale
  IN << Vec(position.x + patrolRadius, position.y, position.z),
        Vec(position.x, position.y, position.z + patrolRadius),
        Vec(position.x - patrolRadius, position.y, position.z),
        Vec(position.x, position.y, position.z - patrolRadius) >>

\* NextId without the counter: every enemy of a type gets the type's first id
NextIdOfType(type, counter) == EnemyId(type, 1)

\* the id of the next spawnEnemy call: ++enemyIdCounter
NextId(type, counter) == EnemyId(type, counter + 1)

\* the EnemyData record spawnEnemy builds
NewEnemy(id, type, position) ==
  LET config == ENEMY_CONFIGS[type]
  IN [id |-> id, type |-> type, position |-> position,
      rotation |-> [hx |-> 0, hz |-> HeadingScale],
      stats |-> [health |-> config.maxHealth, maxHealth |-> config.maxHealth,
                 speed |-> config.speed, damage |-> config.damage,
                 attackRange |-> config.attackRange,
                 detectionRange |-> config.detectionRange,
                 attackSpeed |-> config.attackSpeed, defense |-> config.defense],
      state |-> PATROL, target |-> NoTarget, patrolPoints |-> PatrolPoints(position),
      currentPatrolIndex |-> 0, attackCooldown |-> 0, alertTime |-> 0,
      lastDamageTime |-> 0, respawnTime |-> 0]

\* { ...enemy, ...updates }
Merge(enemy, updates) ==
  [k \in DOMAIN enemy \cup DOMAIN updates |->
     IF k \in DOMAIN updates THEN updates[k] ELSE enemy[k]]

\* updateEnemy without its guard: an absent id gets the updates as its record
updateEnemyOrInsert(map, id, updates) ==
  [k \in DOMAIN map \cup {id} |->
     IF k # id THEN map[k]
     ELSE IF id \in DOMAIN map THEN Merge(map[id], updates) ELSE updates]

\* updateEnemy(id, updates): the new enemies map
updateEnemy(map, id, updates) ==
  IF id \notin DOMAIN map THEN map
  ELSE [map EXCEPT ![id] = Merge(map[id], updates)]

\* damageEnemy's early return without the test for DEAD
DamageIgnoredIfAbsent(map, id) == id \notin DOMAIN map

\* damageEnemy's early return
DamageIgnored(map, id) == id \notin DOMAIN map \/ map[id].state = DEAD

\* finalDamage without the minimum of 1
FinalDamageNoMinimum(defense, raw2) == (raw2 * 100) \div (2 * (defense + 100))

\* finalDamage = max(1, floor(damage * (1 - defense / (defense + 100)))), the raw
\* damage given doubled: damage * (1 - d / (d + 100)) = damage * 100 / (d + 100)
\* (exact arithmetic; the code's double-precision product has the same floor for
\* the defenses and damages of DamageInputs and of ProbeDefenses x ProbeRaw2)
FinalDamage(defense, raw2) == Max(1, (raw2 * 100) \div (2 * (defense + 100)))

\* newHealth without the floor at 0
NewHealthNoFloor(health, finalDamage) == health - finalDamage

\* newHealth = max(0, health - finalDamage)
NewHealth(health, finalDamage) == Max(0, health - finalDamage)

\* the record damageEnemy stores for a living enemy
Damaged(enemy, raw2, time) ==
  LET newHealth == NewHealth(enemy.stats.health, FinalDamage(enemy.stats.defense, raw2))
  IN [enemy EXCEPT !.stats.health = newHealth,
                   !.lastDamageTime = time,
                   !.state = IF newHealth <= 0 THEN DEAD ELSE enemy.state]

\* the DamageEvent carrying the raw damage instead of finalDamage
DamageEventOfRaw(enemy, raw2, crit) ==
  [enemyId |-> enemy.id, damage |-> raw2 \div 2,
   isCritical |-> crit, position |-> enemy.position]

\* the DamageEvent damageEnemy appends
DamageEventOf(enemy, raw2, crit) ==
  [enemyId |-> enemy.id, damage |-> FinalDamage(enemy.stats.defense, raw2),
   isCritical |-> crit, position |-> enemy.position]

\* damageEnemy scheduling a respawn on every hit
DiesOnEveryHit(enemy, raw2) == TRUE

\* damageEnemy schedules a respawn: newHealth <= 0
Dies(enemy, raw2) ==
  NewHealth(enemy.stats.health, FinalDamage(enemy.stats.defense, raw2)) <= 0

\* respawnEnemy leaving the enemy where it died
RespawnedInPlace(enemy) ==
  [enemy EXCEPT !.stats.health = enemy.stats.maxHealth,
                !.state = PATROL,
                !.target = NoTarget,
                !.currentPatrolIndex = 0,
                !.attackCooldown = 0,
                !.alertTime = 0]

\* the record respawnEnemy stores
Respawned(enemy) ==
  [enemy EXCEPT !.position = enemy.patrolPoints[1],
                !.stats.health = enemy.stats.maxHealth,
                !.state = PATROL,
                !.target = NoTarget,
                !.currentPatrolIndex = 0,
                !.attackCooldown = 0,
                !.alertTime = 0]

\* respawnEnemy(id): the new enemies map
respawnEnemy(map, id) ==
  IF id \notin DOMAIN map THEN map
  ELSE [map EXCEPT ![id] = Respawned(map[id])]

\* playerStore.takeDamage(amount)
takeDamage(health, amount) == Max(0, health - amount)

\* ------------------------------------------ stores/playerStore.ts: weapons

\* playerStore.maxStamina
maxStamina == 100

Min(a, b) == IF a <= b THEN a ELSE b

\* the weapon state of the playerStore as one record, timeouts being the pending
\* setTimeout callbacks of reload
PlayerStore ==
  [currentWeapon |-> currentWeapon, weapons |-> weapons,
   attackCooldown |-> attackCooldown, isReloading |-> isReloading,
   stamina |-> stamina, timeouts |-> reloadTimers]

\* the weapon state of a new playerStore: the sword equipped, both weapons as
\* WEAPONS has them, no cooldown, no reload, full stamina
NewPlayerStore ==
  [currentWeapon |-> WEAPONS.sword, weapons |-> <<WEAPONS.sword, WEAPONS.pistol>>,
   attackCooldown |-> 0, isReloading |-> FALSE, stamina |-> maxStamina,
   timeouts |-> << >>]

\* the refs of a WeaponController that has not run a frame
NoKeys == [weaponSlot1 |-> FALSE, weaponSlot2 |-> FALSE, reload |-> FALSE]

\* weaponFrame before the WeaponController has run a frame: attack is the attack
\* input of the frame, weapon the weapon the component had rendered, melee, shot
\* and reloaded what the callback did (a swing, a projectile, a reload begun),
\* drained the stamina it has taken, since the frame time since the last attack
\* (-1: none yet), with the weapon it was made with
NoWeaponFrame ==
  [n |-> 0, attack |-> FALSE, weapon |-> "none", melee |-> FALSE, shot |-> FALSE,
   reloaded |-> FALSE, drained |-> 0, since |-> -1, with |-> "none"]

\* the weapon variables hold the store s
StoreIs(s) ==
  /\ currentWeapon = s.currentWeapon
  /\ weapons = s.weapons
  /\ attackCooldown = s.attackCooldown
  /\ isReloading = s.isReloading
  /\ stamina = s.stamina
  /\ reloadTimers = s.timeouts

WeaponsInit ==
  /\ StoreIs(NewPlayerStore)
  /\ prev = NoKeys
  /\ weaponFrame = NoWeaponFrame

\* drainStamina(amount), regenerateStamina(amount)
drainStamina(s, amount) == [s EXCEPT !.stamina = Max(0, @ - amount)]

regenerateStamina(s, amount) == [s EXCEPT !.stamina = Min(maxStamina, @ + amount)]

\* equipWeapon(weaponId)
equipWeapon(s, weaponId) ==
  IF \E i \in DOMAIN s.weapons : s.weapons[i].id = weaponId
  THEN LET i == CHOOSE i \in DOMAIN s.weapons :
                  /\ s.weapons[i].id = weaponId
                  /\ \A j \in DOMAIN s.weapons : s.weapons[j].id = weaponId => i <= j
       IN [s EXCEPT !.currentWeapon = s.weapons[i]]
  ELSE s

\* state.weapons.map((w) => (w.id === updatedWeapon.id ? updatedWeapon : w))
updatedWeapons(ws, updatedWeapon) ==
  [i \in DOMAIN ws |-> IF ws[i].id = updatedWeapon.id THEN updatedWeapon ELSE ws[i]]

\* playerStore.attack(): the cooldown 1 / attackSpeed in ms, and a round of the
\* equipped weapon if it is ranged
storeAttack(s) ==
  LET cooldown == 10000 \div s.currentWeapon.attackSpeed
  IN IF s.currentWeapon.type = "ranged"
     THEN LET updatedWeapon == [s.currentWeapon EXCEPT !.ammo = Max(0, @ - 1)]
          IN [s EXCEPT !.currentWeapon = updatedWeapon,
                       !.weapons = updatedWeapons(s.weapons, updatedWeapon),
                       !.attackCooldown = cooldown]
     ELSE [s EXCEPT !.attackCooldown = cooldown]

\* reload() called at time t
reload(s, t) ==
  IF s.currentWeapon.type # "ranged" THEN s
  ELSE LET weapon == s.currentWeapon
           ammoNeeded == weapon.maxAmmo - weapon.ammo
           ammoAvailable == weapon.totalAmmo
           ammoToReload == Min(ammoNeeded, ammoAvailable)
           updatedWeapon == [weapon EXCEPT !.ammo = weapon.ammo + ammoToReload,
                                           !.totalAmmo = ammoAvailable - ammoToReload]
       IN IF ammoNeeded <= 0 \/ ammoAvailable <= 0 THEN s
          ELSE [s EXCEPT
                  !.currentWeapon = updatedWeapon,
                  !.weapons = updatedWeapons(s.weapons, updatedWeapon),
                  !.isReloading = TRUE,
                  !.timeouts = Append(@, [due |-> t + (IF weapon.reloadTime = 0
                                                       THEN 1000
                                                       ELSE weapon.reloadTime)])]

\* updateAttackCooldown(delta)
updateAttackCooldown(s, delta) == [s EXCEPT !.attackCooldown = Max(0, @ - delta)]

\* --------------------------------- components/game/Scene.tsx: Scene, Enemy

\* A React commit after the store changed.  Scene renders one Enemy per record
\* of the store, keyed by id.  A newly mounted Enemy builds its EnemyAI on the
\* record it is given; a mounted one re-reads the store (renderedState stands
\* for the `enemy` and `enemyState` the useFrame closure sees, and for
\* rigidBodyRef, which is set exactly when the last render was not DEAD), and its
\* effect replaces the EnemyAI by one on the store's record when that is DEAD.
Commit(map, cs) ==
  [id \in DOMAIN map |->
     [renderedState |-> map[id].state,
      ai |-> IF id \in DOMAIN cs /\ map[id].state # DEAD THEN cs[id].ai ELSE map[id]]]

\* the frame callback of Enemy returns early
FrameSkipped(c) == c.renderedState = DEAD

\* the updates the frame callback passes to updateEnemy: the controller's
\* record with the position put on the ground (y = 1)
WriteBack(updatedEnemy) ==
  [updatedEnemy EXCEPT !.position = Vec(updatedEnemy.position.x, Scale,
                                        updatedEnemy.position.z)]


\* ---------------------------------------------------------------- actions

\* id1 was spawned before id2
SpawnedBefore(id1, id2) ==
  \E i, j \in DOMAIN issued : i < j /\ issued[i] = id1 /\ issued[j] = id2

\* the ids damageEnemy and removeEnemy are called with: every id ever spawned,
\* and one never spawned
DamageTargets == {issued[i] : i \in DOMAIN issued} \cup {NeverId}

Init ==
  /\ enemies = << >>
  /\ damageEvents = << >>
  /\ enemyIdCounter = 0
  /\ timers = << >>
  /\ now = 0
  /\ playerPosition = PlayerStart
  /\ playerHealth = 100
  /\ comps = << >>
  /\ inFrame = FALSE
  /\ frameDelta = 0
  /\ frameDone = {}
  /\ lastOp = Op("init", NeverId, 0, FALSE, FALSE)
  /\ issued = << >>
  /\ deaths = [id \in Ids |-> 0]
  /\ fired = [id \in Ids |-> 0]
  /\ respawned = {}
  /\ frames = 0
  /\ events = 0
  /\ projectiles = << >>
  /\ combat = NoCombat
  /\ shots = 0
  /\ removals = NoRemovals
  /\ WeaponsInit

\* a store that holds nothing but the record set last
MapOfOne(map, id, enemy) == (id :> enemy)

\* the map with id set to enemy (Map.set)
MapSet(map, id, enemy) ==
  [k \in DOMAIN map \cup {id} |-> IF k = id THEN enemy ELSE map[k]]

\* the map without id (Map.delete)
MapDelete(map, id) == [k \in DOMAIN map \ {id} |-> map[k]]

\* spawnEnemy(type, position), called by the Scene's mount effect, so before
\* the first frame, and the commit that mounts the new Enemy
SpawnEnemy(type, position) ==
  /\ frames = 0
  /\ enemyIdCounter < MaxSpawns
  /\ LET id == NextId(type, enemyIdCounter)
     IN /\ enemies' = MapSet(enemies, id, NewEnemy(id, type, position))
        /\ enemyIdCounter' = enemyIdCounter + 1
        /\ issued' = Append(issued, id)
        /\ lastOp' = Op("spawn", id, 0, FALSE, FALSE)
  /\ comps' = Commit(enemies', comps)
  /\ UNCHANGED <<damageEvents, timers, now, playerVars, frameVars, deaths, fired,
                 respawned, frames, events>>
  /\ UNCHANGED combatVars
  /\ UNCHANGED weaponVars

\* removeEnemy(id), at any time, for an id that is, was or never was in the
\* store; between frames the commit unmounts the Enemy
RemoveEnemy(id) ==
  /\ id \in DamageTargets
  /\ events < MaxEvents
  /\ events' = events + 1
  /\ enemies' = MapDelete(enemies, id)
  /\ comps' = IF inFrame THEN comps ELSE Commit(enemies', comps)
  /\ respawned' = respawned \ {id}
  /\ lastOp' = Op("remove", id, 0, FALSE, id \notin DOMAIN enemies)
  /\ UNCHANGED <<damageEvents, enemyIdCounter, timers, now, playerVars, frameVars,
                 issued, deaths, fired, frames>>
  /\ UNCHANGED combatVars
  /\ UNCHANGED weaponVars

\* clearDamageEvents(), between frames
ClearDamageEvents ==
  /\ ~inFrame
  /\ damageEvents # << >>
  /\ damageEvents' = << >>
  /\ lastOp' = Op("clear", NeverId, 0, FALSE, FALSE)
  /\ UNCHANGED <<enemies, enemyIdCounter, timers, now, playerVars, comps, frameVars,
                 countVars>>
  /\ UNCHANGED combatVars
  /\ UNCHANGED weaponVars

\* the frame loop starts a frame: delta has passed since the last one
BeginFrame(delta) ==
  /\ ~inFrame
  /\ events < MaxEvents
  /\ events' = events + 1
  /\ inFrame' = TRUE
  /\ frameDelta' = delta
  /\ frameDone' = {}
  /\ now' = now + delta
  /\ frames' = frames + 1
  /\ lastOp' = Op("begin", NeverId, 0, FALSE, FALSE)
  /\ UNCHANGED <<storeVars, playerVars, comps, issued, deaths, fired, respawned>>
  /\ UNCHANGED combatVars
  /\ UNCHANGED weaponVars

\* the Player's frame callback moves the player (setPosition); the Player is
\* mounted, and so subscribed to the frame loop, before any Enemy
MovePlayer(p) ==
  /\ inFrame
  /\ frameDone = {}
  /\ p # playerPosition
  /\ playerPosition' = p
  /\ lastOp' = Op("move", NeverId, 0, FALSE, FALSE)
  /\ UNCHANGED <<storeVars, now, playerHealth, comps, frameVars, countVars>>
  /\ UNCHANGED combatVars
  /\ UNCHANGED weaponVars

\* damageEnemy(id, damage, isCritical): what the call does to the store, the
\* pending timeouts and the history of calls
damageEnemy(id, raw2, crit) ==
  /\ lastOp' = Op("damage", id, raw2, crit, DamageIgnored(enemies, id))
  /\ respawned' = respawned \ {id}
  /\ IF DamageIgnored(enemies, id)
     THEN UNCHANGED <<enemies, damageEvents, timers, deaths>>
     ELSE LET enemy == enemies[id]
          IN /\ enemies' = [enemies EXCEPT ![id] = Damaged(enemy, raw2, now)]
             /\ damageEvents' = Append(damageEvents, DamageEventOf(enemy, raw2, crit))
             /\ timers' = IF Dies(enemy, raw2)
                          THEN Append(timers, [id |-> id, due |-> now + RespawnDelay])
                          ELSE timers
             /\ deaths' = IF enemy.stats.health > 0 /\ enemies'[id].stats.health = 0
                          THEN [deaths EXCEPT ![id] = @ + 1]
                          ELSE deaths

\* damageEnemy(id, damage, isCritical), called from a frame callback: the
\* WeaponController's melee swing, which runs before the Enemy callbacks (it is
\* mounted with the Scene, the Enemies after the Scene's effect has spawned
\* them), or a Projectile's hit test, which runs after them (a Projectile is
\* mounted when a shot is fired)
DamageEnemy(id, raw2, crit) ==
  /\ inFrame
  /\ frameDone = {} \/ DOMAIN comps \subseteq frameDone
  /\ id \in DamageTargets
  /\ events < MaxEvents
  /\ events' = events + 1
  /\ damageEnemy(id, raw2, crit)
  /\ UNCHANGED <<enemyIdCounter, now, playerVars, comps, frameVars, issued, fired,
                 frames, combatVars>>
  /\ UNCHANGED weaponVars

\* the useFrame callback of the Enemy component of id: step the controller and
\* write its record back with updateEnemy.  The frame loop calls its subscribers
\* in the order they subscribed, which for the Enemies is the order of spawning.
EnemyFrame(id) ==
  /\ inFrame
  /\ id \in DOMAIN comps
  /\ id \notin frameDone
  /\ \A other \in DOMAIN comps : SpawnedBefore(other, id) => other \in frameDone
  /\ frameDone' = frameDone \cup {id}
  /\ lastOp' = Op("frame", id, 0, FALSE, FrameSkipped(comps[id]))
  /\ IF FrameSkipped(comps[id])
     THEN UNCHANGED <<enemies, comps, playerHealth>>
     ELSE LET r == update(comps[id].ai, playerPosition, frameDelta)
          IN /\ comps' = [comps EXCEPT ![id].ai = r.enemy]
             /\ playerHealth' = IF r.hit > 0 THEN takeDamage(playerHealth, r.hit)
                                ELSE playerHealth
             /\ enemies' = updateEnemy(enemies, r.enemy.id, WriteBack(r.enemy))
  /\ UNCHANGED <<damageEvents, enemyIdCounter, timers, now, playerPosition, inFrame,
                 frameDelta, countVars>>
  /\ UNCHANGED combatVars
  /\ UNCHANGED weaponVars

\* every mounted Enemy has run its callback: the frame ends and React commits
\* the renders the store changes of the frame have scheduled
EndFrame ==
  /\ inFrame
  /\ DOMAIN comps \subseteq frameDone
  /\ inFrame' = FALSE
  /\ frameDone' = {}
  /\ comps' = Commit(enemies, comps)
  /\ lastOp' = Op("end", NeverId, 0, FALSE, FALSE)
  /\ UNCHANGED <<storeVars, now, playerVars, frameDelta, countVars>>
  /\ UNCHANGED combatVars
  /\ UNCHANGED weaponVars

\* time passes without frames (the frame loop is paused in a hidden tab) until
\* the earliest respawn timeout is due
Idle ==
  /\ ~inFrame
  /\ timers # << >>
  /\ Head(timers).due > now
  /\ now' = Head(timers).due
  /\ lastOp' = Op("idle", NeverId, 0, FALSE, FALSE)
  /\ UNCHANGED <<storeVars, playerVars, comps, frameVars, countVars>>
  /\ UNCHANGED combatVars
  /\ UNCHANGED weaponVars

\* the earliest respawn timeout is due: get().respawnEnemy(id), then the commit
RespawnTimer ==
  /\ ~inFrame
  /\ timers # << >>
  /\ Head(timers).due <= now
  /\ LET id == Head(timers).id
     IN /\ enemies' = respawnEnemy(enemies, id)
        /\ fired' = [fired EXCEPT ![id] = @ + 1]
        /\ respawned' = IF id \in DOMAIN enemies THEN respawned \cup {id} ELSE respawned
        /\ lastOp' = Op("respawn", id, 0, FALSE, id \notin DOMAIN enemies)
  /\ timers' = Tail(timers)
  /\ comps' = Commit(enemies', comps)
  /\ UNCHANGED <<damageEvents, enemyIdCounter, now, playerVars, frameVars, issued,
                 deaths, frames, events>>
  /\ UNCHANGED combatVars
  /\ UNCHANGED weaponVars

Next ==
  \/ \E in \in SpawnInputs : SpawnEnemy(in[1], in[2])
  \/ \E id \in Ids : RemoveEnemy(id)
  \/ ClearDamageEvents
  \/ \E delta \in Deltas : BeginFrame(delta)
  \/ \E p \in PlayerPositions : MovePlayer(p)
  \/ \E id \in Ids, in \in DamageInputs : DamageEnemy(id, in[1], in[2])
  \/ \E id \in Ids : EnemyFrame(id)
  \/ EndFrame
  \/ Idle
  \/ RespawnTimer

Spec == Init /\ [][Next]_vars

\* a frame that has begun runs on: the steps that change frameDone or inFrame
\* in a frame are the callback of the next Enemy (EnemyFrame) and the end of the
\* frame (EndFrame), and one of the two is enabled in every state of a frame
FrameRuns == inFrame /\ frameDone' \in SUBSET Ids /\ inFrame' \in BOOLEAN

\* the browser keeps going: a frame that has begun runs its callbacks to the
\* end, time passes, and a setTimeout callback that is due runs
FairSpec ==
  /\ Spec
  /\ WF_<<inFrame, frameDone>>(FrameRuns)
  /\ WF_vars(Idle)
  /\ WF_vars(RespawnTimer)

\* ------------------------------------------------ damageEnemy as a function

\* defense, health and raw damage (doubled) tried on damageEnemy alone: the
\* defenses of ENEMY_CONFIGS, none, one that halves the damage and a very high one
ProbeDefenses == {0, 3, 5, 100, 10000}
ProbeHealths == {1, 23, 100}
ProbeRaw2 == {0, 1, 20, 50, 75, 250}
ProbeId == EnemyId(ZOMBIE, 1)

\* a store holding one living enemy of the given defense and health, in a frame
DamageInit ==
  /\ \E defense \in ProbeDefenses, health \in ProbeHealths :
       enemies = MapSet(<< >>, ProbeId,
                        [NewEnemy(ProbeId, ZOMBIE, Vec(20 * Scale, Scale, 0))
                           EXCEPT !.stats.defense = defense, !.stats.health = health])
  /\ damageEvents = << >>
  /\ enemyIdCounter = 1
  /\ timers = << >>
  /\ now = 20
  /\ playerPosition = PlayerStart
  /\ playerHealth = 100
  /\ comps = Commit(enemies, << >>)
  /\ inFrame = TRUE
  /\ frameDelta = 20
  /\ frameDone = {}
  /\ lastOp = Op("begin", NeverId, 0, FALSE, FALSE)
  /\ issued = <<ProbeId>>
  /\ deaths = [id \in Ids |-> 0]
  /\ fired = [id \in Ids |-> 0]
  /\ respawned = {}
  /\ frames = 1
  /\ events = 0
  /\ projectiles = << >>
  /\ combat = NoCombat
  /\ shots = 0
  /\ removals = NoRemovals
  /\ WeaponsInit

DamageNext == \E raw2 \in ProbeRaw2, crit \in BOOLEAN : DamageEnemy(ProbeId, raw2, crit)

DamageSpec == DamageInit /\ [][DamageNext]_vars

\* ------------------------------- systems/combat.ts, checkEnemyHit (ai.ts)

\* a ray direction: an integer vector v and its exact length len (the unit
\* vector of the code is v / len)
Dir(x, y, z, len) == [v |-> Vec(x, y, z), len |-> len]

Dot(a, b) == a.x * b.x + a.y * b.y + a.z * b.z

\* the result of checkEnemyHit when nothing is hit (null)
NoHit == [enemyId |-> "null"]

\* the keys of the enemies Map in iteration order, which is insertion order:
\* the order of the spawnEnemy calls
EnemyOrder(map) == SelectSeq(issued, LAMBDA id : id \in DOMAIN map)

\* projectionLength of an enemy at position from the ray, times dir.len
ProjectionLength(position, rayOrigin, dir) == Dot(SubVectors(position, rayOrigin), dir.v)

\* the radius test always passing
WithinRadiusAlways(position, rayOrigin, dir) == TRUE

\* distanceToRay <= enemyRadius (1 m):
\* |toEnemy|^2 - projectionLength^2 <= 1, times dir.len^2
WithinRadius(position, rayOrigin, dir) ==
  LET t == ProjectionLength(position, rayOrigin, dir)
  IN dir.len * dir.len * DistSq(position, rayOrigin) - t * t
       <= dir.len * dir.len * Scale * Scale

\* the loop keeping the last enemy that passes the tests instead of the nearest
RECURSIVE checkEnemyHitFromLast(_, _, _, _, _, _, _)
checkEnemyHitFromLast(map, order, i, rayOrigin, dir, maxDistance, closestHit) ==
  IF i > Len(order) THEN closestHit
  ELSE LET enemy == map[order[i]]
           t == ProjectionLength(enemy.position, rayOrigin, dir)
           next == IF enemy.state = DEAD THEN closestHit
                   ELSE IF t < 0 THEN closestHit
                   ELSE IF t > maxDistance * Scale * dir.len THEN closestHit
                   ELSE IF WithinRadius(enemy.position, rayOrigin, dir)
                   THEN [enemyId |-> order[i], distance |-> t]
                   ELSE closestHit
       IN checkEnemyHitFromLast(map, order, i + 1, rayOrigin, dir, maxDistance, next)

\* the body of enemies.forEach in checkEnemyHit for the keys order[i..], with
\* closestHit as it stands (its distance is kept times dir.len)
RECURSIVE checkEnemyHitFrom(_, _, _, _, _, _, _)
checkEnemyHitFrom(map, order, i, rayOrigin, dir, maxDistance, closestHit) ==
  IF i > Len(order) THEN closestHit
  ELSE LET enemy == map[order[i]]
           t == ProjectionLength(enemy.position, rayOrigin, dir)
           next == IF enemy.state = DEAD THEN closestHit
                   ELSE IF t < 0 THEN closestHit
                   ELSE IF t > maxDistance * Scale * dir.len THEN closestHit
                   ELSE IF /\ WithinRadius(enemy.position, rayOrigin, dir)
                           /\ (closestHit = NoHit \/ t < closestHit.distance)
                   THEN [enemyId |-> order[i], distance |-> t]
                   ELSE closestHit
       IN checkEnemyHitFrom(map, order, i + 1, rayOrigin, dir, maxDistance, next)

\* checkEnemyHit(rayOrigin, rayDirection, maxDistance)
checkEnemyHit(map, rayOrigin, dir, maxDistance) ==
  checkEnemyHitFrom(map, EnemyOrder(map), 1, rayOrigin, dir, maxDistance, NoHit)

\* Math.random() < (weapon.critChance || 0.1), the roll in percent
IsCrit(weapon, roll) ==
  roll < (IF weapon.critChance = 0 THEN 10 ELSE weapon.critChance)

\* the damage passed without the critical multiplier
MeleeDamage2Plain(weapon, roll) == 2 * weapon.damage

\* twice the damage performMeleeAttack passes to damageEnemy:
\* weapon.damage, times (weapon.critMultiplier || 2.0) on a critical hit
MeleeDamage2(weapon, roll) ==
  IF IsCrit(weapon, roll)
  THEN (2 * weapon.damage
          * (IF weapon.critMultiplier = 0 THEN 20 ELSE weapon.critMultiplier)) \div 10
  ELSE 2 * weapon.damage

\* performMeleeAttack(weapon, camera), called by the WeaponController's frame
\* callback; the camera gives the ray, roll is what Math.random() returns
PerformMeleeAttack(weapon, rayOrigin, dir, roll) ==
  /\ inFrame
  /\ frameDone = {}
  /\ events < MaxEvents
  /\ events' = events + 1
  /\ LET hit == checkEnemyHit(enemies, rayOrigin, dir, weapon.range)
     IN /\ combat' = [kind |-> "melee", weapon |-> weapon.id, rayOrigin |-> rayOrigin,
                      dir |-> dir, roll |-> roll, hit |-> hit]
        /\ IF hit = NoHit
           THEN /\ lastOp' = Op("miss", NeverId, 0, FALSE, TRUE)
                /\ UNCHANGED <<enemies, damageEvents, timers, deaths, respawned>>
           ELSE damageEnemy(hit.enemyId, MeleeDamage2(weapon, roll), IsCrit(weapon, roll))
  /\ UNCHANGED <<enemyIdCounter, now, playerVars, comps, frameVars, issued, fired,
                 frames, projectiles, shots, removals>>
  /\ UNCHANGED weaponVars

\* the stores a swing is tried on: two enemies, each at one of MeleePositions,
\* alive or DEAD, with the defense of their type or none; the camera at the origin
MeleeIds == <<EnemyId(ZOMBIE, 1), EnemyId(BANDIT, 2)>>
MeleePositions == {Vec(0, 0, -Scale), Vec(0, 0, Scale), Vec(0, 0, -5 * Scale),
                   Vec(80, 0, -Scale), Vec(0, Scale, -2 * Scale)}
MeleeOrigin == Vec(0, 0, 0)
MeleeDirs == {Dir(0, 0, -1, 1), Dir(3, 0, -4, 5)}
MeleeRolls == {14, 15}

MeleeInit ==
  /\ \E at \in [1..Len(MeleeIds) -> MeleePositions], dead \in SUBSET (1..Len(MeleeIds)),
        noDefense \in BOOLEAN :
       enemies =
         [id \in {MeleeIds[i] : i \in 1..Len(MeleeIds)} |->
            LET i == CHOOSE i \in 1..Len(MeleeIds) : MeleeIds[i] = id
                new == NewEnemy(id, id[1], at[i])
            IN [new EXCEPT !.stats.defense = IF noDefense THEN 0 ELSE @,
                           !.stats.health = IF i \in dead THEN 0 ELSE @,
                           !.state = IF i \in dead THEN DEAD ELSE @]]
  /\ damageEvents = << >>
  /\ enemyIdCounter = Len(MeleeIds)
  /\ timers = << >>
  /\ now = 20
  /\ playerPosition = PlayerStart
  /\ playerHealth = 100
  /\ comps = Commit(enemies, << >>)
  /\ inFrame = TRUE
  /\ frameDelta = 20
  /\ frameDone = {}
  /\ lastOp = Op("begin", NeverId, 0, FALSE, FALSE)
  /\ issued = MeleeIds
  /\ deaths = [id \in Ids |-> 0]
  /\ fired = [id \in Ids |-> 0]
  /\ respawned = {}
  /\ frames = 1
  /\ events = 0
  /\ projectiles = << >>
  /\ combat = NoCombat
  /\ shots = 0
  /\ removals = NoRemovals
  /\ WeaponsInit

MeleeNext ==
  \E dir \in MeleeDirs, roll \in MeleeRolls :
    PerformMeleeAttack(WEAPONS.sword, MeleeOrigin, dir, roll)

MeleeSpec == MeleeInit /\ [][MeleeNext]_vars

\* ------------------------ components/game/Projectile.tsx, ProjectileManager.tsx

\* the hitbox radius of a projectile (1.5 m) and its lifetime (5 s, in ms)
HitRadius == (3 * Scale) \div 2
ProjectileLifetime == 5 * 1000

\* the entry the WeaponController passes to spawnProjectile for a shot with
\* weapon from the camera at cameraPosition looking along dir, and the state of
\* the Projectile component ProjectileManager mounts for it at the next commit:
\* lifetime (useState), the updates setLifetime has queued, the refs hasExpired
\* and checkedEnemies, the rigid body's translation, and whether the component's
\* frame callback has run in the running frame
NewProjectile(id, weapon, cameraPosition, dir) ==
  LET startPosition == Vec(cameraPosition.x + DivRound(dir.v.x * Scale, 2 * dir.len),
                           cameraPosition.y + DivRound(dir.v.y * Scale, 2 * dir.len),
                           cameraPosition.z + DivRound(dir.v.z * Scale, 2 * dir.len))
  IN [id |-> id, startPosition |-> startPosition, direction |-> dir, speed |-> 50,
      damage |-> weapon.damage,
      mounted |-> FALSE, lifetime |-> ProjectileLifetime, queued |-> << >>,
      hasExpired |-> FALSE, checkedEnemies |-> {}, position |-> startPosition,
      ran |-> FALSE]

\* spawnProjectile(projectile)
spawnProjectile(list, projectile) == Append(list, projectile)

\* the filter keeping every projectile
removeNothing(list, id) == list

\* removeProjectile(id)
removeProjectile(list, id) == SelectSeq(list, LAMBDA p : p.id # id)

\* the lifetime never counted down
LifetimeKept(lifetime, delta) == lifetime

\* the updater passed to setLifetime: Math.max(0, prev - delta)
LifetimeAfter(lifetime, delta) == Max(0, lifetime - delta)

\* the updaters queued by setLifetime, applied in order by the next render
RECURSIVE ApplyQueued(_, _)
ApplyQueued(lifetime, queued) ==
  IF queued = << >> THEN lifetime
  ELSE ApplyQueued(LifetimeAfter(lifetime, Head(queued)), Tail(queued))

\* the updater calls onExpire: newLifetime <= 0 && !hasExpired.current
LifetimeExpires(newLifetime, hasExpired) == newLifetime <= 0 /\ ~hasExpired

\* a hit calling onExpire whatever hasExpired says
HitExpiresAgain(hasExpired) == TRUE

\* a hit calls onExpire: !hasExpired.current
HitExpires(hasExpired) == ~hasExpired

\* the translation of the rigid body after a physics step of delta at the
\* velocity the callback has set, direction * speed (the bullet drop of
\* gravityScale 0.2 within one step is left out: setLinvel resets it each frame)
Advanced(p, delta) ==
  LET d == p.speed * Scale * delta
      n == 1000 * p.direction.len
  IN Vec(p.position.x + DivRound(p.direction.v.x * d, n),
         p.position.y + DivRound(p.direction.v.y * d, n),
         p.position.z + DivRound(p.direction.v.z * d, n))

\* damageEnemy(id, damage, isCritical) on the store st (the fields enemies,
\* damageEvents, timers, deaths and respawned of a record)
damageEnemyIn(st, id, raw2, crit) ==
  IF DamageIgnored(st.enemies, id)
  THEN [st EXCEPT !.respawned = @ \ {id}]
  ELSE LET enemy == st.enemies[id]
           after == Damaged(enemy, raw2, now)
       IN [st EXCEPT !.enemies = [@ EXCEPT ![id] = after],
                     !.damageEvents = Append(@, DamageEventOf(enemy, raw2, crit)),
                     !.timers = IF Dies(enemy, raw2)
                                THEN Append(@, [id |-> id, due |-> now + RespawnDelay])
                                ELSE @,
                     !.deaths = IF enemy.stats.health > 0 /\ after.stats.health = 0
                                THEN [@ EXCEPT ![id] = @ + 1]
                                ELSE @,
                     !.respawned = @ \ {id}]

\* the body of enemies.forEach in the Projectile's frame callback for the keys
\* order[i..] of the Map snapshot the callback has read, with the store and the
\* refs as they stand in st; onExpire counts the calls of onExpire
RECURSIVE ProjectileHitsFrom(_, _, _, _, _)
ProjectileHitsFrom(st, snapshot, order, i, p) ==
  IF i > Len(order) THEN st
  ELSE LET enemyId == order[i]
           enemy == snapshot[enemyId]
           next == IF enemy.state = DEAD \/ enemyId \in st.checkedEnemies THEN st
                   ELSE IF DistLt(p.position, enemy.position, HitRadius)
                   THEN LET hit == damageEnemyIn(st, enemyId, 2 * p.damage, FALSE)
                        IN [hit EXCEPT !.checkedEnemies = @ \cup {enemyId},
                                       !.hits = Append(@, enemyId),
                                       !.onExpire = IF HitExpires(st.hasExpired)
                                                    THEN @ + 1 ELSE @,
                                       !.hasExpired = TRUE]
                   ELSE st
       IN ProjectileHitsFrom(next, snapshot, order, i + 1, p)

\* a frame begins with a projectile in flight; the attack input is not held
\* (frames with no projectile in flight and no shot are left out: they change
\* the clock only)
ProjBeginFrame(delta) ==
  /\ ~inFrame
  /\ projectiles # << >>
  /\ inFrame' = TRUE
  /\ frameDelta' = delta
  /\ frameDone' = {}
  /\ now' = now + delta
  /\ frames' = frames + 1
  /\ lastOp' = Op("begin", NeverId, 0, FALSE, FALSE)
  /\ UNCHANGED <<storeVars, playerVars, comps, issued, deaths, fired, respawned,
                 events, combatVars>>
  /\ UNCHANGED weaponVars

\* a frame begins and the WeaponController's callback, the first to run, fires
\* the ranged weapon: spawnProjectile(newProjectile)
FireFrame(delta, weapon, cameraPosition, dir) ==
  /\ ~inFrame
  /\ weapon.type = "ranged"
  /\ shots < MaxShots
  /\ inFrame' = TRUE
  /\ frameDelta' = delta
  /\ frameDone' = {}
  /\ now' = now + delta
  /\ frames' = frames + 1
  /\ shots' = shots + 1
  /\ projectiles' = spawnProjectile(projectiles,
                                    NewProjectile(shots + 1, weapon, cameraPosition, dir))
  /\ lastOp' = Op("fire", NeverId, 0, FALSE, FALSE)
  /\ UNCHANGED <<storeVars, playerVars, comps, issued, deaths, fired, respawned,
                 events, combat, removals>>
  /\ UNCHANGED weaponVars

\* the useFrame callback of the i-th Projectile; the frame loop calls them in
\* the order they were mounted.  React runs the updater passed to setLifetime
\* at once when the component has no update pending (eager), else at the next
\* render; roll is what a call of Math.random() at a hit would return (the
\* callback makes none; 100 stands for no hit)
ProjectileFrame(i, eager, roll) ==
  /\ inFrame
  /\ i \in 1..Len(projectiles)
  /\ projectiles[i].mounted
  /\ ~projectiles[i].ran
  /\ \A j \in 1..(i - 1) : projectiles[j].mounted => projectiles[j].ran
  /\ LET p == projectiles[i]
         newLifetime == LifetimeAfter(p.lifetime, frameDelta)
         expires == eager /\ LifetimeExpires(newLifetime, p.hasExpired)
         st0 == [enemies |-> enemies, damageEvents |-> damageEvents, timers |-> timers,
                 deaths |-> deaths, respawned |-> respawned,
                 checkedEnemies |-> p.checkedEnemies, hits |-> << >>,
                 hasExpired |-> p.hasExpired \/ expires,
                 onExpire |-> IF expires THEN 1 ELSE 0]
         st == ProjectileHitsFrom(st0, enemies, EnemyOrder(enemies), 1, p)
         q == [p EXCEPT !.lifetime = IF eager THEN newLifetime ELSE @,
                        !.queued = IF eager THEN @ ELSE Append(@, frameDelta),
                        !.hasExpired = st.hasExpired,
                        !.checkedEnemies = st.checkedEnemies,
                        !.ran = TRUE]
     IN IF p.hasExpired
        THEN /\ projectiles' = [projectiles EXCEPT ![i].ran = TRUE]
             /\ lastOp' = Op("projectile", NeverId, 0, FALSE, TRUE)
             /\ combat' = [kind |-> "projectile", id |-> p.id, roll |-> 100,
                           hits |-> << >>, onExpire |-> 0]
             /\ UNCHANGED <<enemies, damageEvents, timers, deaths, respawned, removals>>
        ELSE /\ enemies' = st.enemies
             /\ damageEvents' = st.damageEvents
             /\ timers' = st.timers
             /\ deaths' = st.deaths
             /\ respawned' = st.respawned
             /\ removals' = [removals EXCEPT ![p.id] = @ + st.onExpire]
             /\ projectiles' = IF st.onExpire > 0
                               THEN removeProjectile(projectiles, p.id)
                               ELSE [projectiles EXCEPT ![i] = q]
             /\ lastOp' = Op("projectile",
                             IF st.hits = << >> THEN NeverId ELSE Head(st.hits),
                             2 * p.damage, FALSE, st.hits = << >>)
             /\ combat' = [kind |-> "projectile", id |-> p.id,
                           roll |-> IF st.hits = << >> THEN 100 ELSE roll,
                           hits |-> st.hits, onExpire |-> st.onExpire]
  /\ UNCHANGED <<enemyIdCounter, now, playerVars, comps, frameVars, issued, fired,
                 frames, events, shots>>
  /\ UNCHANGED weaponVars

\* the render of a mounted Projectile with queued lifetime updates calls
\* onExpire
RenderExpires(p) ==
  /\ p.mounted
  /\ p.queued # << >>
  /\ LifetimeExpires(ApplyQueued(p.lifetime, p.queued), p.hasExpired)

\* a Projectile after the physics step and the commit that end a frame
Rendered(p, delta) ==
  [p EXCEPT !.mounted = TRUE,
            !.lifetime = ApplyQueued(@, p.queued),
            !.queued = << >>,
            !.position = IF p.ran THEN Advanced(p, delta) ELSE @,
            !.ran = FALSE]

RECURSIVE RenderedAll(_, _)
RenderedAll(list, delta) ==
  IF list = << >> THEN << >>
  ELSE <<Rendered(Head(list), delta)>> \o RenderedAll(Tail(list), delta)

\* every mounted Projectile has run its callback: the physics world steps, the
\* frame ends and React commits: ProjectileManager mounts the Projectiles
\* spawned in the frame and unmounts the removed ones, the queued lifetime
\* updates are applied, and a projectile whose update calls onExpire is removed
ProjEndFrame ==
  /\ inFrame
  /\ \A i \in 1..Len(projectiles) : projectiles[i].mounted => projectiles[i].ran
  /\ inFrame' = FALSE
  /\ frameDone' = {}
  /\ removals' = [id \in ProjectileIds |->
                    IF \E i \in 1..Len(projectiles) :
                         projectiles[i].id = id /\ RenderExpires(projectiles[i])
                    THEN removals[id] + 1
                    ELSE removals[id]]
  /\ projectiles' = RenderedAll(SelectSeq(projectiles, LAMBDA p : ~RenderExpires(p)),
                                frameDelta)
  /\ lastOp' = Op("end", NeverId, 0, FALSE, FALSE)
  /\ UNCHANGED <<storeVars, now, playerVars, comps, frameDelta, countVars, combat,
                 shots>>
  /\ UNCHANGED weaponVars

\* the frame deltas tried: very slow frames, so that the lifetime is used up
\* within three of them
ProjDeltas == {2000, 2500}

\* the stores the shots are tried on: two enemies, each at one of ProjPositions
\* (next to the muzzle, 101 m down the line of fire, where the projectile is
\* after a frame of 2 s, and out of the line of fire),
\* alive or DEAD; the camera at ProjCamera looks along ProjDir
ProjCamera == Vec(0, 0, 0)
ProjDir == Dir(0, 0, -1, 1)
ProjPositions == {Vec(0, 0, -Scale), Vec(0, 0, -101 * Scale), Vec(20 * Scale, 0, 0)}
ProjRolls == {5, 50}

ProjInit ==
  /\ \E at \in [1..Len(MeleeIds) -> ProjPositions], dead \in SUBSET (1..Len(MeleeIds)) :
       enemies =
         [id \in {MeleeIds[i] : i \in 1..Len(MeleeIds)} |->
            LET i == CHOOSE i \in 1..Len(MeleeIds) : MeleeIds[i] = id
                new == NewEnemy(id, id[1], at[i])
            IN [new EXCEPT !.stats.health = IF i \in dead THEN 0 ELSE @,
                           !.state = IF i \in dead THEN DEAD ELSE @]]
  /\ damageEvents = << >>
  /\ enemyIdCounter = Len(MeleeIds)
  /\ timers = << >>
  /\ now = 0
  /\ playerPosition = PlayerStart
  /\ playerHealth = 100
  /\ comps = Commit(enemies, << >>)
  /\ inFrame = FALSE
  /\ frameDelta = 0
  /\ frameDone = {}
  /\ lastOp = Op("init", NeverId, 0, FALSE, FALSE)
  /\ issued = MeleeIds
  /\ deaths = [id \in Ids |-> 0]
  /\ fired = [id \in Ids |-> 0]
  /\ respawned = {}
  /\ frames = 0
  /\ events = 0
  /\ projectiles = << >>
  /\ combat = NoCombat
  /\ shots = 0
  /\ removals = NoRemovals
  /\ WeaponsInit

ProjNext ==
  \/ \E delta \in ProjDeltas : ProjBeginFrame(delta)
  \/ \E delta \in ProjDeltas : FireFrame(delta, WEAPONS.pistol, ProjCamera, ProjDir)
  \/ \E i \in ProjectileIds, eager \in BOOLEAN, roll \in ProjRolls :
       ProjectileFrame(i, eager, roll)
  \/ ProjEndFrame

ProjSpec == ProjInit /\ [][ProjNext]_vars

\* a frame begins while a projectile is in flight, and a frame that has begun
\* ends: the steps that change inFrame are the beginning of a frame
\* (ProjBeginFrame, FireFrame) and its end (ProjEndFrame), which is enabled once
\* the callbacks of the frame have run
ProjRuns == (inFrame \/ projectiles # << >>) /\ inFrame' \in BOOLEAN

\* the frame loop keeps running
FairProjSpec == ProjSpec /\ WF_inFrame(ProjRuns)

\* ------------------------------------------- EnemyAI.update as a function

\* the most AI steps in a run
MaxTicks == 3

\* the controllers a step is tried on: an enemy of either type at the first
\* spawn point of the Scene, in any state but DEAD, with full health, 20% of it
\* or 1 less, and the timers and the target the state is entered with; the
\* player 1 m, 10 m, 15.2 m or 40 m away
AIStates == {IDLE, PATROL, ALERT, CHASE, ATTACK, FLEE}
AISpawn == Vec(20 * Scale, Scale, 0)
AIPlayerPositions == {Vec(21 * Scale, Scale, 0), Vec(30 * Scale, Scale, 0),
                      Vec(3520, Scale, 0), Vec(60 * Scale, Scale, 0)}
AIHealths(type) == {ENEMY_CONFIGS[type].maxHealth, ENEMY_CONFIGS[type].maxHealth \div 5,
                    ENEMY_CONFIGS[type].maxHealth \div 5 - 1}

\* the enemy whose controller is stepped
AIId == issued[1]

AIInitAt(positions) ==
  /\ \E type \in EnemyType, state \in AIStates :
       \E health \in AIHealths(type) :
         LET id == EnemyId(type, 1)
             new == NewEnemy(id, type, AISpawn)
         IN /\ issued = <<id>>
            /\ enemies = (id :> [new EXCEPT
                                   !.state = state,
                                   !.stats.health = health,
                                   !.target = IF state \in {IDLE, PATROL}
                                              THEN NoTarget ELSE PlayerTarget,
                                   !.alertTime = IF state = ALERT THEN 1000 ELSE 0])
  /\ damageEvents = << >>
  /\ enemyIdCounter = 1
  /\ timers = << >>
  /\ now = 0
  /\ playerPosition \in positions
  /\ playerHealth = 100
  /\ comps = Commit(enemies, << >>)
  /\ inFrame = FALSE
  /\ frameDelta = 0
  /\ frameDone = {}
  /\ lastOp = Op("init", NeverId, 0, FALSE, FALSE)
  /\ deaths = [id \in Ids |-> 0]
  /\ fired = [id \in Ids |-> 0]
  /\ respawned = {}
  /\ frames = 0
  /\ events = 0
  /\ projectiles = << >>
  /\ combat = NoCombat
  /\ shots = 0
  /\ removals = NoRemovals
  /\ WeaponsInit

AIInit == AIInitAt(AIPlayerPositions)

\* one EnemyAI.update(delta) of the controller; combat keeps the record and the
\* player position the step started from
AITick(delta) ==
  /\ frames < MaxTicks
  /\ frames' = frames + 1
  /\ LET e == comps[AIId].ai
         r == update(e, playerPosition, delta)
     IN /\ comps' = [comps EXCEPT ![AIId].ai = r.enemy]
        /\ playerHealth' = IF r.hit > 0 THEN takeDamage(playerHealth, r.hit)
                           ELSE playerHealth
        /\ combat' = [kind |-> "tick", before |-> e, player |-> playerPosition,
                      delta |-> delta, hit |-> r.hit]
  /\ lastOp' = Op("tick", AIId, 0, FALSE, FALSE)
  /\ UNCHANGED <<storeVars, now, playerPosition, frameVars, issued, deaths, fired,
                 respawned, events, projectiles, shots, removals>>
  /\ UNCHANGED weaponVars

\* the player moves between two steps
AIPlayerMoves(p) ==
  /\ p # playerPosition
  /\ playerPosition' = p
  /\ lastOp' = Op("move", NeverId, 0, FALSE, FALSE)
  /\ UNCHANGED <<storeVars, now, playerHealth, comps, frameVars, countVars, combatVars>>
  /\ UNCHANGED weaponVars

AINext ==
  \/ \E delta \in Deltas : AITick(delta)
  \/ \E p \in AIPlayerPositions : AIPlayerMoves(p)

AISpec == AIInit /\ [][AINext]_vars

\* ------------------------------------------ an enemy hunting the player

\* the store after spawnEnemy has put an enemy of either type at the first
\* spawn point of the Scene and its Enemy component is mounted; the player
\* stands 3 m from it
FleePlayer == Vec(23 * Scale, Scale, 0)

\* (2 * damage, isCritical) of the damageEnemy calls tried: a hit of 86, which
\* takes a zombie from 100 to 19 and a bandit from 80 to 0, and one of 50
FleeDamage == {<<172, FALSE>>, <<100, FALSE>>}

\* the frame delta tried: slow frames of half a second
FleeDeltas == {500}

FleeInit ==
  /\ \E type \in EnemyType :
       LET id == EnemyId(type, 1)
       IN /\ issued = <<id>>
          /\ enemies = (id :> NewEnemy(id, type, AISpawn))
  /\ damageEvents = << >>
  /\ enemyIdCounter = 1
  /\ timers = << >>
  /\ now = 0
  /\ playerPosition = FleePlayer
  /\ playerHealth = 100
  /\ comps = Commit(enemies, << >>)
  /\ inFrame = FALSE
  /\ frameDelta = 0
  /\ frameDone = {}
  /\ lastOp = Op("init", NeverId, 0, FALSE, FALSE)
  /\ deaths = [id \in Ids |-> 0]
  /\ fired = [id \in Ids |-> 0]
  /\ respawned = {}
  /\ frames = 0
  /\ events = 0
  /\ projectiles = << >>
  /\ combat = NoCombat
  /\ shots = 0
  /\ removals = NoRemovals
  /\ WeaponsInit

\* the frame loop starts a frame.  The clock, which only damageEnemy and the
\* respawn timeouts read, is kept for the first MaxTicks frames, the frames in
\* which damageEnemy is called; frames counts up to MaxTicks + 1
FleeBeginFrame(delta) ==
  /\ ~inFrame
  /\ inFrame' = TRUE
  /\ frameDelta' = delta
  /\ frameDone' = {}
  /\ now' = IF frames < MaxTicks THEN now + delta ELSE now
  /\ frames' = IF frames <= MaxTicks THEN frames + 1 ELSE frames
  /\ lastOp' = Op("begin", NeverId, 0, FALSE, FALSE)
  /\ UNCHANGED <<storeVars, playerVars, comps, issued, deaths, fired, respawned,
                 events, combatVars>>
  /\ UNCHANGED weaponVars

\* a hit on the enemy in one of the first MaxTicks frames
FleeDamageEnemy(raw2, crit) ==
  /\ frames <= MaxTicks
  /\ DamageEnemy(AIId, raw2, crit)

FleeNext ==
  \/ \E delta \in FleeDeltas : FleeBeginFrame(delta)
  \/ \E in \in FleeDamage : FleeDamageEnemy(in[1], in[2])
  \/ \E id \in Ids : EnemyFrame(id)
  \/ EndFrame
  \/ Idle
  \/ RespawnTimer

FleeSpec == FleeInit /\ [][FleeNext]_vars

\* a frame begins: the step that sets inFrame
FleeBegins == ~inFrame /\ inFrame' = TRUE

\* the browser keeps going: frames begin and run their callbacks to the end,
\* time passes, and a setTimeout callback that is due runs
FairFleeSpec ==
  /\ FleeSpec
  /\ WF_inFrame(FleeBegins)
  /\ WF_<<inFrame, frameDone>>(FrameRuns)
  /\ WF_vars(Idle)
  /\ WF_vars(RespawnTimer)

\* --------------------------------------------------- an enemy on patrol

\* the frame delta of the patrol: half a second, a patrol step of 0.75 m
\* (zombie) or 1 m (bandit)
PatrolDeltas == {500}

\* an enemy of either type at the first spawn point of the Scene, in any state
\* but DEAD with the timers and the target the state is entered with, the
\* player 40 m away, out of sight of the whole patrol
PatrolInit ==
  /\ \E type \in EnemyType, state \in AIStates :
       LET id == EnemyId(type, 1)
           new == NewEnemy(id, type, AISpawn)
       IN /\ issued = <<id>>
          /\ enemies = (id :> [new EXCEPT
                                 !.state = state,
                                 !.target = IF state \in {IDLE, PATROL}
                                            THEN NoTarget ELSE PlayerTarget,
                                 !.alertTime = IF state = ALERT THEN 1000 ELSE 0])
  /\ damageEvents = << >>
  /\ enemyIdCounter = 1
  /\ timers = << >>
  /\ now = 0
  /\ playerPosition = Vec(60 * Scale, Scale, 0)
  /\ playerHealth = 100
  /\ comps = Commit(enemies, << >>)
  /\ inFrame = FALSE
  /\ frameDelta = 0
  /\ frameDone = {}
  /\ lastOp = Op("init", NeverId, 0, FALSE, FALSE)
  /\ deaths = [id \in Ids |-> 0]
  /\ fired = [id \in Ids |-> 0]
  /\ respawned = {}
  /\ frames = 0
  /\ events = 0
  /\ projectiles = << >>
  /\ combat = NoCombat
  /\ shots = 0
  /\ removals = NoRemovals
  /\ WeaponsInit

\* one EnemyAI.update(delta) of the controller, any number of times
PatrolTick(delta) ==
  /\ LET e == comps[AIId].ai
         r == update(e, playerPosition, delta)
     IN /\ comps' = [comps EXCEPT ![AIId].ai = r.enemy]
        /\ playerHealth' = IF r.hit > 0 THEN takeDamage(playerHealth, r.hit)
                           ELSE playerHealth
        /\ combat' = [kind |-> "tick", before |-> e, player |-> playerPosition,
                      delta |-> delta, hit |-> r.hit]
  /\ lastOp' = Op("tick", AIId, 0, FALSE, FALSE)
  /\ UNCHANGED <<storeVars, now, playerPosition, frameVars, countVars, projectiles,
                 shots, removals>>
  /\ UNCHANGED weaponVars

PatrolNext == \E delta \in PatrolDeltas : PatrolTick(delta)

PatrolSpec == PatrolInit /\ [][PatrolNext]_vars

\* --------------------------------------------- an enemy next to the player

\* where the player stands: 1 m from the enemy, within the attack range of both
\* types, or 2.1 m from it, where a zombie (attackRange 2) stays in ATTACK
\* (2.1 <= 2 * 1.1) and misses
DuelPlayerPositions == {Vec(21 * Scale, Scale, 0), Vec(2210, Scale, 0)}

DuelInit == AIInitAt(DuelPlayerPositions)

\* EnemyAI.update(delta), frame after frame
\* the frame deltas tried: slow frames of 0.3 s and 0.5 s
DuelDeltas == {300, 500}

DuelNext == \E delta \in DuelDeltas : PatrolTick(delta)

DuelSpec == DuelInit /\ [][DuelNext]_vars

\* ------------------------------------------- an enemy and a moving player

\* the most steps of the controller in a run with a clock
MaxHitTicks == 5

\* where the player stands: 1 m, 2.1 m or 10 m from the enemy
HitPlayerPositions == DuelPlayerPositions \cup {Vec(30 * Scale, Scale, 0)}

HitInit == AIInitAt(HitPlayerPositions)

\* one EnemyAI.update(delta) of the controller in a frame at now + delta;
\* combat keeps the record and the player position the step started from and
\* lastHit, the time of the last step before this one that called takeDamage
\* (-1: none)
HitTick(delta) ==
  /\ frames < MaxHitTicks
  /\ frames' = frames + 1
  /\ now' = now + delta
  /\ LET e == comps[AIId].ai
         r == update(e, playerPosition, delta)
     IN /\ comps' = [comps EXCEPT ![AIId].ai = r.enemy]
        /\ playerHealth' = IF r.hit > 0 THEN takeDamage(playerHealth, r.hit)
                           ELSE playerHealth
        /\ combat' = [kind |-> "tick", before |-> e, player |-> playerPosition,
                      delta |-> delta, hit |-> r.hit,
                      lastHit |-> IF combat.kind # "tick" THEN -1
                                  ELSE IF combat.hit > 0 THEN now
                                  ELSE combat.lastHit]
  /\ lastOp' = Op("tick", AIId, 0, FALSE, FALSE)
  /\ UNCHANGED <<storeVars, playerPosition, frameVars, issued, deaths, fired,
                 respawned, events, projectiles, shots, removals>>
  /\ UNCHANGED weaponVars

HitNext ==
  \/ \E delta \in DuelDeltas : HitTick(delta)
  \/ \E p \in HitPlayerPositions : AIPlayerMoves(p)

HitSpec == HitInit /\ [][HitNext]_vars

\* ------------------------------------------------ an enemy fleeing

\* where the player stands, and stays: on the very spot of the enemy, 1 m or
\* 10 m from it
RetreatPlayerPositions == {AISpawn, Vec(21 * Scale, Scale, 0), Vec(30 * Scale, Scale, 0)}

\* an Enemy mounted on the record of an enemy of either type in FLEE, its
\* target the player, with full health, 20% of it or 1 less
RetreatInit ==
  /\ \E type \in EnemyType :
       \E health \in AIHealths(type) :
         LET id == EnemyId(type, 1)
             new == NewEnemy(id, type, AISpawn)
         IN /\ issued = <<id>>
            /\ enemies = (id :> [new EXCEPT !.state = FLEE,
                                            !.stats.health = health,
                                            !.target = PlayerTarget])
  /\ damageEvents = << >>
  /\ enemyIdCounter = 1
  /\ timers = << >>
  /\ now = 0
  /\ playerPosition \in RetreatPlayerPositions
  /\ playerHealth = 100
  /\ comps = Commit(enemies, << >>)
  /\ inFrame = FALSE
  /\ frameDelta = 0
  /\ frameDone = {}
  /\ lastOp = Op("init", NeverId, 0, FALSE, FALSE)
  /\ deaths = [id \in Ids |-> 0]
  /\ fired = [id \in Ids |-> 0]
  /\ respawned = {}
  /\ frames = 0
  /\ events = 0
  /\ projectiles = << >>
  /\ combat = NoCombat
  /\ shots = 0
  /\ removals = NoRemovals
  /\ WeaponsInit

\* frame after frame of half a second, each running the Enemy's callback
LoopNext ==
  \/ \E delta \in FleeDeltas : FleeBeginFrame(delta)
  \/ \E id \in Ids : EnemyFrame(id)
  \/ EndFrame

RetreatSpec == RetreatInit /\ [][LoopNext]_vars

\* the frame loop keeps running: frames begin and run their callbacks to the end
FairRetreatSpec ==
  /\ RetreatSpec
  /\ WF_inFrame(FleeBegins)
  /\ WF_<<inFrame, frameDone>>(FrameRuns)

\* the frame loop running for ever on the enemy of PatrolInit, the player 40 m
\* from the spawn point and out of sight of the whole patrol
PatrolLoopSpec == PatrolInit /\ [][LoopNext]_vars

FairPatrolLoopSpec ==
  /\ PatrolLoopSpec
  /\ WF_inFrame(FleeBegins)
  /\ WF_<<inFrame, frameDone>>(FrameRuns)

\* ---------------------------- components/game/WeaponController.tsx, Camera.tsx

\* the keys useControls has rendered when a frame runs (sprint: the sprint key
\* held while moving): any of attack, one weapon slot and reload together, or
\* sprint with or without attack
KeyStates ==
  {keys \in [attack : BOOLEAN, weaponSlot1 : BOOLEAN, weaponSlot2 : BOOLEAN,
             reload : BOOLEAN, sprint : BOOLEAN] :
     /\ ~(keys.weaponSlot1 /\ keys.weaponSlot2)
     /\ keys.sprint => ~(keys.weaponSlot1 \/ keys.weaponSlot2 \/ keys.reload)}

\* !keys.attack || !currentWeapon || attackCooldown > 0 || isReloading
AttackBlocked(c, keys) == ~keys.attack \/ c.attackCooldown > 0 \/ c.isReloading

\* a swing whatever the stamina
NeverOutOfStamina(energy, weapon) == FALSE

\* stamina < (currentWeapon.staminaCost || 0)
OutOfStamina(energy, weapon) == energy < weapon.staminaCost

\* a shot whatever the clip holds
NeverOutOfAmmo(weapon) == FALSE

\* (currentWeapon.ammo || 0) <= 0
OutOfAmmo(weapon) == weapon.ammo <= 0

\* the frame callback of the WeaponController at time t on the store s: c is the
\* store the component has rendered (what the callback's closure holds as
\* currentWeapon, attackCooldown, isReloading and stamina), refs its key refs.
\* The result is the store after the callback and what the attack logic did.
WeaponController(s, c, keys, refs, delta, t) ==
  LET s1 == IF c.attackCooldown > 0 THEN updateAttackCooldown(s, delta) ELSE s
      s2 == IF keys.weaponSlot1 /\ ~refs.weaponSlot1 THEN equipWeapon(s1, "sword") ELSE s1
      s3 == IF keys.weaponSlot2 /\ ~refs.weaponSlot2 THEN equipWeapon(s2, "pistol") ELSE s2
      s4 == IF /\ keys.reload /\ ~refs.reload
               /\ c.currentWeapon.type = "ranged" /\ ~c.isReloading
            THEN reload(s3, t)
            ELSE s3
      melee == /\ ~AttackBlocked(c, keys)
               /\ c.currentWeapon.type = "melee"
               /\ ~OutOfStamina(c.stamina, c.currentWeapon)
      shot == /\ ~AttackBlocked(c, keys)
              /\ c.currentWeapon.type = "ranged"
              /\ ~OutOfAmmo(c.currentWeapon)
  IN [store |-> IF melee
                THEN storeAttack(drainStamina(s4, c.currentWeapon.staminaCost))
                ELSE IF shot THEN storeAttack(s4) ELSE s4,
      melee |-> melee, shot |-> shot, reloaded |-> s4.timeouts # s3.timeouts]

\* the stamina system of the Player's frame callback, which runs after the
\* WeaponController's: 20 per second drained while sprinting, 15 per second
\* regenerated otherwise; c.stamina is the stamina the Player has rendered
PlayerStamina(s, c, keys, delta) ==
  IF keys.sprint /\ c.stamina > 10
  THEN drainStamina(s, (20 * delta) \div 1000)
  ELSE regenerateStamina(s, (15 * delta) \div 1000)

\* at most MaxWeaponFrames frames run
MaxWeaponFrames == 3

\* the frame deltas tried: 0.2 s and 0.4 s
WeaponDeltas == {200, 400}

\* (ammo, totalAmmo) of the pistol at the start: untouched, after 11 shots,
\* emptied with 5 rounds left in reserve, 3 rounds left of the last clip
WeaponClips == {<<12, 60>>, <<1, 60>>, <<0, 5>>, <<3, 0>>}

\* (stamina, an enemy in reach) at the start: full stamina and no enemy, or 12
\* after a sprint and a zombie 1 m in front of the camera
WeaponStarts == {<<maxStamina, FALSE>>, <<12, TRUE>>}

\* the time left of a reload under way at the start
ReloadLeft == 300

\* a playerStore the game can have reached: either weapon equipped, the pistol
\* with one of WeaponClips, perhaps 1.2 s into a reload that has filled the
\* clip or emptied the reserve; one of WeaponStarts; the first frame comes 0.2 s
\* after the one before
WeaponInit ==
  /\ \E armed \in 1..2, clip \in WeaponClips, start \in WeaponStarts,
        reloading \in BOOLEAN :
       LET pistol == [WEAPONS.pistol EXCEPT !.ammo = clip[1], !.totalAmmo = clip[2]]
           ws == <<WEAPONS.sword, pistol>>
           id == EnemyId(ZOMBIE, 1)
       IN /\ reloading => (clip[1] = pistol.maxAmmo \/ clip[2] = 0)
          /\ StoreIs([currentWeapon |-> ws[armed], weapons |-> ws, attackCooldown |-> 0,
                      isReloading |-> reloading, stamina |-> start[1],
                      timeouts |-> IF reloading THEN <<[due |-> ReloadLeft]>>
                                   ELSE << >>])
          /\ issued = IF start[2] THEN <<id>> ELSE << >>
          /\ enemies = IF start[2] THEN (id :> NewEnemy(id, ZOMBIE, Vec(0, 0, -Scale)))
                       ELSE << >>
          /\ enemyIdCounter = IF start[2] THEN 1 ELSE 0
  /\ prev = NoKeys
  /\ weaponFrame = NoWeaponFrame
  /\ damageEvents = << >>
  /\ timers = << >>
  /\ now = 0
  /\ playerPosition = PlayerStart
  /\ playerHealth = 100
  /\ comps = Commit(enemies, << >>)
  /\ inFrame = FALSE
  /\ frameDelta = 200
  /\ frameDone = {}
  /\ lastOp = Op("init", NeverId, 0, FALSE, FALSE)
  /\ deaths = [id \in Ids |-> 0]
  /\ fired = [id \in Ids |-> 0]
  /\ respawned = {}
  /\ frames = 0
  /\ events = 0
  /\ projectiles = << >>
  /\ combat = NoCombat
  /\ shots = 0
  /\ removals = NoRemovals

\* a frame at time now, frameDelta after the last one: the WeaponController's
\* callback (with performMeleeAttack and spawnProjectile), then the Player's
\* stamina system; the components have rendered the store as it is when the
\* frame begins, and Math.random() returns one of MeleeRolls to a swing that
\* hits.  The next frame comes after next ms.
WeaponFrame(keys, next) ==
  /\ frames < MaxWeaponFrames
  /\ frames' = frames + 1
  /\ now' = now + next
  /\ frameDelta' = next
  /\ LET c == PlayerStore
         r == WeaponController(c, c, keys, prev, frameDelta, now)
         after == PlayerStamina(r.store, c, keys, frameDelta)
         hit == IF r.melee
                THEN checkEnemyHit(enemies, ProjCamera, ProjDir, c.currentWeapon.range)
                ELSE NoHit
     IN /\ currentWeapon' = after.currentWeapon
        /\ weapons' = after.weapons
        /\ attackCooldown' = after.attackCooldown
        /\ isReloading' = after.isReloading
        /\ stamina' = after.stamina
        /\ reloadTimers' = after.timeouts
        /\ weaponFrame' =
             [n |-> weaponFrame.n + 1, attack |-> keys.attack,
              weapon |-> c.currentWeapon.id, melee |-> r.melee, shot |-> r.shot,
              reloaded |-> r.reloaded, drained |-> c.stamina - r.store.stamina,
              since |-> IF r.melee \/ r.shot THEN 0
                        ELSE IF weaponFrame.since < 0 THEN -1
                        ELSE weaponFrame.since + frameDelta,
              with |-> IF r.melee \/ r.shot THEN c.currentWeapon.id
                       ELSE weaponFrame.with]
        /\ IF r.shot
           THEN /\ projectiles' = spawnProjectile(projectiles,
                                    NewProjectile(shots + 1, c.currentWeapon,
                                                  ProjCamera, ProjDir))
                /\ shots' = shots + 1
           ELSE UNCHANGED <<projectiles, shots>>
        /\ IF hit = NoHit
           THEN /\ lastOp' = Op("weapon", NeverId, 0, FALSE, FALSE)
                /\ UNCHANGED <<enemies, damageEvents, timers, deaths, respawned>>
           ELSE \E roll \in MeleeRolls :
                  damageEnemy(hit.enemyId, MeleeDamage2(c.currentWeapon, roll),
                              IsCrit(c.currentWeapon, roll))
  /\ prev' = [weaponSlot1 |-> keys.weaponSlot1, weaponSlot2 |-> keys.weaponSlot2,
              reload |-> keys.reload]
  /\ UNCHANGED <<enemyIdCounter, playerVars, comps, inFrame, frameDone, issued, fired,
                 events, combat, removals>>

\* the earliest timeout of reload is due: setState({ isReloading: false })
ReloadTimer ==
  /\ reloadTimers # << >>
  /\ Head(reloadTimers).due <= now
  /\ isReloading' = FALSE
  /\ reloadTimers' = Tail(reloadTimers)
  /\ lastOp' = Op("reloaded", NeverId, 0, FALSE, FALSE)
  /\ UNCHANGED <<storeVars, now, playerVars, comps, frameVars, countVars, combatVars,
                 currentWeapon, weapons, attackCooldown, stamina, prev, weaponFrame>>

WeaponNext ==
  \/ \E keys \in KeyStates, next \in WeaponDeltas : WeaponFrame(keys, next)
  \/ ReloadTimer

WeaponSpec == WeaponInit /\ [][WeaponNext]_vars

\* ----------------------------------------------------------------- claims

\* C1: in every reachable state every enemy record of the store has
\* 0 <= stats.health <= stats.maxHealth.
HealthInRange ==
  \A id \in DOMAIN enemies :
    /\ 0 <= enemies[id].stats.health
    /\ enemies[id].stats.health <= enemies[id].stats.maxHealth

\* one enemy has been killed (health 0) and another one hurt
HealthInRangeWitness ==
  \E a, b \in DOMAIN enemies :
    /\ enemies[a].stats.health = 0
    /\ enemies[a].state = DEAD
    /\ 0 < enemies[b].stats.health
    /\ enemies[b].stats.health < enemies[b].stats.maxHealth

\* C2: a record whose state is DEAD changes to a state other than DEAD only in
\* the step in which respawnEnemy runs for its id.
DeadUntilRespawn ==
  [][\A id \in DOMAIN enemies \cap DOMAIN enemies' :
       (enemies[id].state = DEAD /\ enemies'[id].state # DEAD)
         => (lastOp'.op = "respawn" /\ lastOp'.id = id)]_vars

\* C3: damageEnemy called for an enemy that is DEAD leaves its health at 0,
\* appends no DamageEvent, leaves lastDamageTime (and the rest of the store's
\* records) unchanged and schedules no respawn.
DamageOnDeadIsNoOp ==
  [][(/\ lastOp'.op = "damage"
      /\ lastOp'.id \in DOMAIN enemies
      /\ enemies[lastOp'.id].state = DEAD)
       => /\ enemies'[lastOp'.id].stats.health = 0
          /\ enemies'[lastOp'.id].lastDamageTime = enemies[lastOp'.id].lastDamageTime
          /\ enemies' = enemies
          /\ damageEvents' = damageEvents
          /\ timers' = timers]_vars

\* damageEnemy has just been called for an enemy that an earlier call had killed
DamageOnDeadWitness ==
  /\ lastOp.op = "damage"
  /\ lastOp.id \in DOMAIN enemies
  /\ enemies[lastOp.id].state = DEAD
  /\ lastOp.ignored
  /\ deaths[lastOp.id] = 1
  /\ Len(damageEvents) = 1

\* the respawn timeouts pending for id
Pending(id) == Cardinality({i \in DOMAIN timers : timers[i].id = id})

\* C4: for every id, each death has scheduled exactly one respawn and nothing
\* else has (firings + pending timeouts = deaths, so firings <= deaths), and the
\* deaths so far are, again and again, all followed by their firings.
RespawnPerDeath ==
  /\ [](\A id \in Ids : fired[id] + Pending(id) = deaths[id])
  /\ []<>(\A id \in Ids : fired[id] = deaths[id])

\* an enemy has died twice and both of its respawn timeouts have fired
RespawnPerDeathWitness == \E id \in Ids : deaths[id] = 2 /\ fired[id] = 2

\* C5: the step in which respawnEnemy(id) runs on a present enemy leaves its
\* record with position = patrolPoints[0], health = maxHealth, state PATROL,
\* no target, currentPatrolIndex 0 and both timers 0; its id, type, patrolPoints
\* and other stats, and every other record, are unchanged.
RespawnResets ==
  [][(lastOp'.op = "respawn" /\ lastOp'.id \in DOMAIN enemies)
       => LET old == enemies[lastOp'.id]
              new == enemies'[lastOp'.id]
          IN /\ DOMAIN enemies' = DOMAIN enemies
             /\ new.position = old.patrolPoints[1]
             /\ new.stats.health = old.stats.maxHealth
             /\ new.state = PATROL
             /\ new.target = NoTarget
             /\ new.currentPatrolIndex = 0
             /\ new.attackCooldown = 0
             /\ new.alertTime = 0
             /\ new.id = old.id
             /\ new.type = old.type
             /\ new.patrolPoints = old.patrolPoints
             /\ [new.stats EXCEPT !.health = 0] = [old.stats EXCEPT !.health = 0]
             /\ \A other \in DOMAIN enemies \ {lastOp'.id} :
                  enemies'[other] = enemies[other]]_vars

\* respawnEnemy has just run on a present enemy that had died away from its
\* first patrol point, next to another enemy
RespawnResetsWitness ==
  /\ lastOp.op = "respawn"
  /\ lastOp.id \in DOMAIN enemies
  /\ Cardinality(DOMAIN enemies) >= 2
  /\ enemies[lastOp.id].state = PATROL
  /\ enemies[lastOp.id].stats.health = enemies[lastOp.id].stats.maxHealth
  /\ enemies[lastOp.id].position = enemies[lastOp.id].patrolPoints[1]
  /\ enemies[lastOp.id].lastDamageTime > 0

\* C6: from the firing of its respawn until the next damageEnemy call for it,
\* an enemy's record is not DEAD and its health is maxHealth.
RespawnedStaysAlive ==
  \A id \in respawned \cap DOMAIN enemies :
    /\ enemies[id].state # DEAD
    /\ enemies[id].stats.health = enemies[id].stats.maxHealth

\* C7: the stats.health of a record of the store changes only in a step of
\* damageEnemy or respawnEnemy for its id; an AI frame leaves it as it is.
HealthOnlyByStore ==
  [][\A id \in DOMAIN enemies \cap DOMAIN enemies' :
       enemies'[id].stats.health # enemies[id].stats.health
         => (lastOp'.op \in {"damage", "respawn"} /\ lastOp'.id = id)]_vars

\* C8: damageEnemy, respawnEnemy and the frame write-back (updateEnemy) for an
\* id that is not in the store leave enemies and damageEvents unchanged and
\* schedule nothing; only spawnEnemy adds a key to enemies.
AbsentIdIsNoOp ==
  [][/\ (lastOp'.op \in {"damage", "respawn", "frame"} /\ lastOp'.id \notin DOMAIN enemies)
          => /\ enemies' = enemies
             /\ damageEvents' = damageEvents
             /\ \A i \in DOMAIN timers' : \E j \in DOMAIN timers : timers'[i] = timers[j]
             /\ Len(timers') <= Len(timers)
     /\ lastOp'.op # "spawn" => DOMAIN enemies' \subseteq DOMAIN enemies]_vars

\* the frame callback of an Enemy has just stepped its controller towards its
\* first patrol point and called updateEnemy for an id that removeEnemy had deleted
AbsentIdIsNoOpWitness ==
  /\ lastOp.op = "frame"
  /\ ~lastOp.ignored
  /\ lastOp.id \notin DOMAIN enemies
  /\ lastOp.id \in DOMAIN comps
  /\ DistLt(comps[lastOp.id].ai.position, comps[lastOp.id].ai.patrolPoints[1], 10 * Scale)

\* C9: no two spawnEnemy calls return the same id, also when the earlier enemy
\* has been removed; the record stored under an id carries that id and the id
\* has been returned by spawnEnemy; respawnEnemy keeps every record's id and the
\* key set of the store.
UniqueIds ==
  /\ [](/\ \A i, j \in DOMAIN issued : i # j => issued[i] # issued[j]
        /\ \A id \in DOMAIN enemies :
             /\ enemies[id].id = id
             /\ \E i \in DOMAIN issued : issued[i] = id)
  /\ [][lastOp'.op = "respawn"
          => /\ DOMAIN enemies' = DOMAIN enemies
             /\ \A id \in DOMAIN enemies : enemies'[id].id = enemies[id].id]_vars

\* two enemies of one type have been spawned, the second one after the first
\* one had been removed
UniqueIdsWitness ==
  /\ Len(issued) = 2
  /\ issued[1][1] = issued[2][1]
  /\ issued[1] \notin DOMAIN enemies
  /\ issued[2] \in DOMAIN enemies
  /\ lastOp.op = "spawn"

\* C10: damageEnemy on a present, living enemy reports finalDamage =
\* max(1, floor(raw * (1 - defense / (defense + 100)))), an integer >= 1, and
\* leaves health - finalDamage, or 0 if that is negative; defense 5 and raw 25
\* give 23, defense 10000 and raw 10 give 1.
MitigationFormula ==
  [][(lastOp'.op = "damage" /\ ~lastOp'.ignored)
       => LET old == enemies[lastOp'.id]
              d == old.stats.defense
              raw2 == lastOp'.raw2
              F == damageEvents'[Len(damageEvents')].damage
          IN /\ Len(damageEvents') = Len(damageEvents) + 1
             /\ F >= 1
             \* raw * (1 - d / (d + 100)) = raw2 * 100 / (2 * (d + 100)) =: x;
             \* F = 1 if x < 2 and F <= x < F + 1 otherwise
             /\ \/ F = 1 /\ raw2 * 100 < 2 * (2 * (d + 100))
                \/ /\ F * (2 * (d + 100)) <= raw2 * 100
                   /\ raw2 * 100 < (F + 1) * (2 * (d + 100))
             /\ enemies'[lastOp'.id].stats.health =
                  IF old.stats.health - F < 0 THEN 0 ELSE old.stats.health - F
             /\ (d = 5 /\ raw2 = 50) => F = 23
             /\ (d = 10000 /\ raw2 = 20) => F = 1]_vars

\* damageEnemy has just taken 1 from an enemy of defense 10000 for a raw damage of 10
MitigationFormulaWitness ==
  /\ lastOp.op = "damage"
  /\ ~lastOp.ignored
  /\ lastOp.raw2 = 20
  /\ enemies[lastOp.id].stats.defense = 10000
  /\ damageEvents[Len(damageEvents)].damage = 1
  /\ enemies[lastOp.id].stats.health = 99


\* C11: a damageEnemy call on a present enemy that is not DEAD appends exactly
\* one event at the end of damageEvents, with the enemy's id, the damage taken
\* from its health (an integer >= 1) and the isCritical flag of the call;
\* clearDamageEvents empties the list and changes nothing else; no other step
\* changes the list.
DamageEventsAppendOnly ==
  [][/\ (lastOp'.op = "damage" /\ ~lastOp'.ignored)
          => /\ Len(damageEvents') = Len(damageEvents) + 1
             /\ SubSeq(damageEvents', 1, Len(damageEvents)) = damageEvents
             /\ LET ev == damageEvents'[Len(damageEvents')]
                    old == enemies[lastOp'.id]
                IN /\ ev.enemyId = lastOp'.id
                   /\ ev.isCritical = lastOp'.crit
                   /\ ev.damage >= 1
                   /\ enemies'[lastOp'.id].stats.health =
                        IF old.stats.health > ev.damage
                        THEN old.stats.health - ev.damage ELSE 0
     /\ lastOp'.op = "clear"
          => /\ damageEvents' = << >>
             /\ UNCHANGED <<enemies, enemyIdCounter, timers, playerPosition, playerHealth>>
     /\ (lastOp'.op \notin {"damage", "clear"} \/ (lastOp'.op = "damage" /\ lastOp'.ignored))
          => damageEvents' = damageEvents]_vars

\* two calls have appended their events in call order: a critical hit on one
\* enemy, then a lethal plain hit on another
DamageEventsAppendOnlyWitness ==
  /\ Len(damageEvents) = 2
  /\ damageEvents[1].isCritical
  /\ ~damageEvents[2].isCritical
  /\ damageEvents[1].enemyId # damageEvents[2].enemyId
  /\ damageEvents[1].damage < damageEvents[2].damage
  /\ lastOp.op = "damage"
  /\ lastOp.id = damageEvents[2].enemyId

\* the step is a melee swing that hit an enemy
MeleeHitStep == combat'.kind = "melee" /\ events' # events /\ combat'.hit # NoHit

\* C12: a melee hit calls damageEnemy for the hit enemy with raw damage
\* weapon.damage * critMultiplier and isCritical = TRUE when the roll is below the
\* weapon's critChance, and with weapon.damage and FALSE otherwise; the enemy's
\* health drops by that raw value mitigated (the floor of raw * 100 / (defense + 100)),
\* or to 0; defense 0, damage 25 and a critical x2.0 take 50.
CritBeforeMitigation ==
  [][MeleeHitStep
       => LET w == WEAPONS[combat'.weapon]
              crit == combat'.roll < w.critChance
              old == enemies[lastOp'.id]
              d == old.stats.defense
              F == damageEvents'[Len(damageEvents')].damage
              taken == old.stats.health - enemies'[lastOp'.id].stats.health
          IN /\ lastOp'.op = "damage"
             /\ ~lastOp'.ignored
             /\ lastOp'.id = combat'.hit.enemyId
             /\ lastOp'.crit = crit
             /\ 10 * lastOp'.raw2 = IF crit THEN 2 * w.damage * w.critMultiplier
                                    ELSE 20 * w.damage
             /\ F * (2 * (d + 100)) <= lastOp'.raw2 * 100
             /\ lastOp'.raw2 * 100 < (F + 1) * (2 * (d + 100))
             /\ taken = IF old.stats.health > F THEN F ELSE old.stats.health
             /\ (d = 0 /\ crit /\ w.damage = 25 /\ w.critMultiplier = 20) => F = 50]_vars

\* a critical sword hit has just taken 50 from an enemy without defense
CritBeforeMitigationWitness ==
  /\ combat.kind = "melee"
  /\ combat.hit # NoHit
  /\ combat.roll < WEAPONS.sword.critChance
  /\ lastOp.op = "damage"
  /\ lastOp.crit
  /\ lastOp.raw2 = 100
  /\ enemies[lastOp.id].stats.defense = 0
  /\ enemies[lastOp.id].stats.health = enemies[lastOp.id].stats.maxHealth - 50

\* the enemy id qualifies as a hit of the ray (rayOrigin, dir) within maxDistance
\* in the store map: not DEAD, 0 <= t <= maxDistance, and at most 1 m off the ray
\* (t is the projection; all lengths times dir.len)
Qualifies(map, id, rayOrigin, dir, maxDistance) ==
  LET toEnemy == SubVectors(map[id].position, rayOrigin)
      t == toEnemy.x * dir.v.x + toEnemy.y * dir.v.y + toEnemy.z * dir.v.z
  IN /\ map[id].state # DEAD
     /\ 0 <= t
     /\ t <= maxDistance * Scale * dir.len
     /\ dir.len * dir.len * (toEnemy.x * toEnemy.x + toEnemy.y * toEnemy.y
                               + toEnemy.z * toEnemy.z) - t * t
          <= dir.len * dir.len * Scale * Scale

\* the step is a melee swing
MeleeStep == combat'.kind = "melee" /\ events' # events

\* C14: checkEnemyHit returns an enemy only if it qualifies, and null exactly
\* when no enemy of the store qualifies; along (0,0,-1) from the origin with
\* maxDistance 2 a living enemy at (0,0,-1) is hit, and enemies at (0,0,1) and
\* (0,0,-5) are not.
HitIffQualifies ==
  [][MeleeStep
       => LET hit == combat'.hit
              range == WEAPONS[combat'.weapon].range
              q == {id \in DOMAIN enemies :
                      Qualifies(enemies, id, combat'.rayOrigin, combat'.dir, range)}
          IN /\ hit # NoHit => hit.enemyId \in q
             /\ hit = NoHit <=> q = {}
             /\ (combat'.rayOrigin = Vec(0, 0, 0) /\ combat'.dir = Dir(0, 0, -1, 1) /\ range = 2)
                  => /\ (\E id \in DOMAIN enemies :
                           /\ enemies[id].position = Vec(0, 0, -Scale)
                           /\ enemies[id].state # DEAD) => hit # NoHit
                     /\ \A id \in DOMAIN enemies :
                          enemies[id].position \in {Vec(0, 0, Scale), Vec(0, 0, -5 * Scale)}
                            => (hit = NoHit \/ hit.enemyId # id)]_vars

\* a swing along (0,0,-1) has hit the enemy at (0,0,-1) and not the living one
\* at (0,0,-5)
HitIffQualifiesWitness ==
  /\ combat.kind = "melee"
  /\ combat.dir = Dir(0, 0, -1, 1)
  /\ combat.hit # NoHit
  /\ enemies[combat.hit.enemyId].position = Vec(0, 0, -Scale)
  /\ \E id \in DOMAIN enemies :
       /\ enemies[id].position = Vec(0, 0, -5 * Scale)
       /\ enemies[id].state # DEAD
       /\ enemies[id].stats.health = enemies[id].stats.maxHealth

\* C15: when enemies qualify, checkEnemyHit returns one whose projection t is the
\* smallest among them and reports t as distance; the swing changes the record
\* of that enemy only and appends one event.
NearestHitOnly ==
  [][MeleeHitStep
       => LET hit == combat'.hit
              range == WEAPONS[combat'.weapon].range
              T(id) == Dot(SubVectors(enemies[id].position, combat'.rayOrigin), combat'.dir.v)
          IN /\ hit.distance = T(hit.enemyId)
             /\ \A id \in DOMAIN enemies :
                  Qualifies(enemies, id, combat'.rayOrigin, combat'.dir, range)
                    => T(hit.enemyId) <= T(id)
             /\ \A id \in DOMAIN enemies \ {hit.enemyId} : enemies'[id] = enemies[id]
             /\ Len(damageEvents') = Len(damageEvents) + 1]_vars

\* the swing has hit the enemy nearer along the ray although the other one, also
\* within reach and alive, is nearer to the ray
NearestHitOnlyWitness ==
  /\ combat.kind = "melee"
  /\ combat.hit # NoHit
  /\ \E other \in DOMAIN enemies \ {combat.hit.enemyId} :
       LET PerpSq(id) ==
             LET toEnemy == SubVectors(enemies[id].position, combat.rayOrigin)
                 t == Dot(toEnemy, combat.dir.v)
             IN combat.dir.len * combat.dir.len * LengthSq(toEnemy) - t * t
       IN /\ enemies[other].state # DEAD
          /\ enemies[other].stats.health = enemies[other].stats.maxHealth
          /\ Qualifies(enemies, other, combat.rayOrigin, combat.dir,
                       WEAPONS[combat.weapon].range)
          /\ PerpSq(other) < PerpSq(combat.hit.enemyId)
          /\ issued[1] = other

\* a step in which a Projectile's frame callback hits an enemy
ProjectileHitStep ==
  /\ lastOp'.op = "projectile"
  /\ combat'.kind = "projectile"
  /\ combat'.hits # << >>

\* C13: a ranged hit passes damageEnemy the damage melee computes: with a roll
\* below the weapon's critChance the raw damage is damage * critMultiplier and
\* the event is critical, otherwise the raw damage is the weapon's damage and
\* the event is not critical
RangedCritLikeMelee ==
  [][ProjectileHitStep =>
       LET id == Head(combat'.hits)
           event == damageEvents'[Len(damageEvents) + 1]
       IN /\ event.enemyId = id
          /\ event.isCritical = IsCrit(WEAPONS.pistol, combat'.roll)
          /\ event.damage = FinalDamage(enemies[id].stats.defense,
                                        MeleeDamage2(WEAPONS.pistol, combat'.roll))]_vars

\* the projectile of id is in playerStore.projectiles
InFlight(id) == \E i \in 1..Len(projectiles) : projectiles[i].id = id

\* the frame time a projectile has flown, from the way it has gone
FlightTime(p) ==
  (Isqrt(DistSq(p.position, p.startPosition)) * 1000) \div (p.speed * Scale)

\* C16: every projectile spawned is removed, by exactly one removeProjectile
\* call: it leaves the list only in the step of its callback that registers a
\* hit or in a step that counts its lifetime of 5 s down to 0, it is gone when
\* the frame of either ends, and no projectile stays in flight for ever
ProjectileRemovedOnce ==
  /\ [](\A id \in ProjectileIds :
          /\ removals[id] = IF id <= shots /\ ~InFlight(id) THEN 1 ELSE 0
          /\ Cardinality({i \in 1..Len(projectiles) : projectiles[i].id = id})
               = IF id <= shots /\ removals[id] = 0 THEN 1 ELSE 0)
  /\ [](~inFrame =>
          \A i \in 1..Len(projectiles) :
            LET p == projectiles[i]
            IN /\ p.lifetime > 0
               /\ p.lifetime = ProjectileLifetime - FlightTime(p)
               /\ ~p.hasExpired)
  /\ [][\A i \in 1..Len(projectiles) :
          LET p == projectiles[i]
              hit == /\ ProjectileHitStep
                     /\ combat'.id = p.id
              spent == \/ /\ lastOp'.op = "projectile"
                          /\ combat'.id = p.id
                          /\ p.lifetime - frameDelta <= 0
                       \/ /\ lastOp'.op = "end"
                          /\ ApplyQueued(p.lifetime, p.queued) <= 0
              gone == \A j \in 1..Len(projectiles') : projectiles'[j].id # p.id
          IN /\ hit => gone
             /\ gone => hit \/ spent]_vars
  /\ []<>(projectiles = << >>)

\* both shots are gone, one removed by its hit, the other with its lifetime
\* used up
ProjectileRemovedOnceWitness ==
  /\ shots >= 2
  /\ projectiles = << >>
  /\ removals[1] = 1
  /\ removals[2] = 1
  /\ Len(damageEvents) = 1
  /\ combat.kind = "projectile"
  /\ combat.hits = << >>

\* a step of the controller that starts in state
TickFrom(state) ==
  /\ lastOp'.op = "tick"
  /\ comps[AIId].ai.state = state

\* the state combat says the last step of the controller started in
TickedFrom(state) ==
  /\ lastOp.op = "tick"
  /\ combat.kind = "tick"
  /\ combat.before.state = state

\* C17: a PATROL step ends in ALERT with target player when the player is
\* within detectionRange of the position the step has moved the enemy to, and
\* in PATROL with target null otherwise; a player at 10 with detectionRange 15
\* is detected in one step
PatrolDetects ==
  [][TickFrom(PATROL) =>
       LET before == comps[AIId].ai
           after == comps'[AIId].ai
       IN /\ IF DistLt(after.position, playerPosition, after.stats.detectionRange * Scale)
             THEN after.state = ALERT /\ after.target = PlayerTarget
             ELSE after.state = PATROL /\ after.target = NoTarget
          /\ (/\ before.stats.detectionRange = 15
              /\ DistSq(before.position, playerPosition) = (10 * Scale) * (10 * Scale))
               => after.state = ALERT]_vars

\* a PATROL step has detected a player who was out of range where the step
\* started
PatrolDetectsWitness ==
  /\ TickedFrom(PATROL)
  /\ comps[AIId].ai.state = ALERT
  /\ comps[AIId].ai.target = PlayerTarget
  /\ combat.player = playerPosition
  /\ ~DistLt(combat.before.position, playerPosition,
             combat.before.stats.detectionRange * Scale)

LowHealthFlees ==
  [][TickFrom(CHASE) /\ 5 * comps[AIId].ai.stats.health < comps[AIId].ai.stats.maxHealth
       => comps'[AIId].ai.state = FLEE]_vars

\* a CHASE step with the player within attackRange has ended in FLEE
LowHealthFleesWitness ==
  /\ TickedFrom(CHASE)
  /\ comps[AIId].ai.state = FLEE
  /\ combat.player = playerPosition
  /\ DistLe(combat.before.position, playerPosition,
            combat.before.stats.attackRange * Scale)
  /\ combat.before.stats.health = 19

\* damageEnemy has just brought the health in the store of a living enemy that
\* is chasing or attacking below 20% of maxHealth
HurtWhileHunting ==
  /\ lastOp.op = "damage"
  /\ ~lastOp.ignored
  /\ lastOp.id \in DOMAIN enemies
  /\ lastOp.id \in DOMAIN comps
  /\ enemies[lastOp.id].state \in {CHASE, ATTACK}
  /\ comps[lastOp.id].ai.state \in {CHASE, ATTACK}
  /\ enemies[lastOp.id].stats.health > 0
  /\ 5 * enemies[lastOp.id].stats.health < enemies[lastOp.id].stats.maxHealth

\* C20: a living enemy that is chasing or attacking and whose health
\* damageEnemy has brought below 20% of maxHealth enters FLEE in a later AI
\* frame (unless it dies first)
HurtEnemyFlees ==
  HurtWhileHunting ~>
    \E id \in DOMAIN enemies :
      \/ enemies[id].state \in {FLEE, DEAD}
      \/ id \in DOMAIN comps /\ comps[id].ai.state = FLEE

\* a step of the controller
Tick == lastOp'.op = "tick"

\* C21: a step of the controller changes currentPatrolIndex only from i to
\* (i + 1) mod patrolPoints.length, and only when it starts in PATROL within 1
\* unit of patrolPoints[i]: the points are targeted in the order 0,1,2,3,0,...
PatrolInOrder ==
  [][Tick =>
       LET before == comps[AIId].ai
           after == comps'[AIId].ai
           i == before.currentPatrolIndex
       IN \/ after.currentPatrolIndex = i
          \/ /\ after.currentPatrolIndex = (i + 1) % Len(before.patrolPoints)
             /\ before.state = PATROL
             /\ DistLt(before.position, before.patrolPoints[i + 1], Scale)]_vars

\* the patrol has gone round: a step has taken the index from 3 back to 0
PatrolInOrderWitness ==
  /\ lastOp.op = "tick"
  /\ combat.kind = "tick"
  /\ combat.before.currentPatrolIndex = 3
  /\ comps[AIId].ai.currentPatrolIndex = 0
  /\ Len(comps[AIId].ai.patrolPoints) = 4

\* C22: after every step of the controller neither timer is below 0
TimersNotNegative ==
  lastOp.op = "tick" =>
    /\ comps[AIId].ai.attackCooldown >= 0
    /\ comps[AIId].ai.alertTime >= 0

\* C23: a step of the controller lowers the player's health only if the enemy
\* is in ATTACK, its attackCooldown (after the step's decrement) is <= 0 and the
\* player is no farther than attackRange; the health then drops by exactly
\* stats.damage, floored at 0
EnemyHitsOnlyInAttack ==
  [][Tick =>
       LET e == comps[AIId].ai
           cooldown == IF e.attackCooldown > 0
                       THEN e.attackCooldown - combat'.delta
                       ELSE e.attackCooldown
       IN /\ playerHealth' <= playerHealth
          /\ playerHealth' < playerHealth =>
               /\ e.state = ATTACK
               /\ cooldown <= 0
               /\ ~DistGt(e.position, playerPosition, e.stats.attackRange * Scale)
               /\ playerHealth' = Max(0, playerHealth - e.stats.damage)]_vars

EnemyHitsOnlyInAttackWitness ==
  /\ lastOp.op = "tick" /\ combat.kind = "tick"
  /\ combat.before.state = ATTACK
  /\ combat.hit = combat.before.stats.damage
  /\ playerHealth = 0
  /\ comps[AIId].ai.attackCooldown = 10000 \div combat.before.stats.attackSpeed

\* C24: the frame callback of an Enemy whose record in the store is DEAD leaves
\* the record's position, rotation, patrol index, target and timers as they
\* are and does not lower the player's health
DeadIsInert ==
  [][\A id \in DOMAIN enemies \cap DOMAIN enemies' :
       (lastOp'.op = "frame" /\ lastOp'.id = id /\ enemies[id].state = DEAD)
         => /\ enemies'[id].position = enemies[id].position
            /\ enemies'[id].rotation = enemies[id].rotation
            /\ enemies'[id].currentPatrolIndex = enemies[id].currentPatrolIndex
            /\ enemies'[id].target = enemies[id].target
            /\ enemies'[id].attackCooldown = enemies[id].attackCooldown
            /\ enemies'[id].alertTime = enemies[id].alertTime
            /\ playerHealth' = playerHealth]_vars

\* C25: an enemy enters CHASE no sooner than 1 s of tick time after it entered
\* ALERT: when the last step has brought it into ALERT and this step takes it to
\* CHASE, this step alone spans at least 1 s
ChaseAfterOneSecond ==
  [][(/\ TickFrom(ALERT)
      /\ combat.kind = "tick"
      /\ combat.before.state # ALERT
      /\ comps'[AIId].ai.state = CHASE)
       => combat'.delta >= 1000]_vars

\* a frame of the WeaponController
WeaponStep == weaponFrame'.n # weaponFrame.n

\* C26: a frame that equips another weapon while a reload is under way (reload()
\* has set isReloading, its timeout has not run) leaves isReloading cleared
SwitchCancelsReload ==
  [][(/\ WeaponStep
      /\ isReloading
      /\ reloadTimers # << >>
      /\ currentWeapon'.id # currentWeapon.id)
       => ~isReloading']_vars

\* the pistol as the store's weapons array has it
Pistol == weapons[2]

\* C27: a frame changes the pistol's counts only by a reload, which moves
\* min(maxAmmo - ammo, totalAmmo) rounds from the reserve to the clip, and by a
\* shot, which takes one round from the clip; a frame without a shot and
\* without reload(), whatever weapons it equips, leaves both counts as they
\* are, and so does reload() with a full clip or an empty reserve
AmmoAccounting ==
  [][WeaponStep =>
       LET moved == IF weaponFrame'.reloaded
                    THEN Min(Pistol.maxAmmo - Pistol.ammo, Pistol.totalAmmo)
                    ELSE 0
           spent == IF weaponFrame'.shot THEN 1 ELSE 0
       IN /\ Pistol'.ammo = Pistol.ammo + moved - spent
          /\ Pistol'.totalAmmo = Pistol.totalAmmo - moved]_vars

CooldownBetweenAttacks ==
  [][(/\ WeaponStep
      /\ weaponFrame'.melee \/ weaponFrame'.shot
      /\ weaponFrame.since >= 0)
       => weaponFrame.since + frameDelta >= 10000 \div WEAPONS[weaponFrame.with].attackSpeed]_vars

\* C30: every frame leaves stamina within 0..maxStamina; the WeaponController
\* swings only in a frame that begins with stamina >= staminaCost of the melee
\* weapon equipped, and a swing takes exactly staminaCost, hit or miss; a frame
\* that begins with a melee weapon equipped and less stamina than its cost
\* swings nothing, takes no stamina and does not restart the cooldown
SwingCostsStamina ==
  [][WeaponStep =>
       /\ stamina' >= 0 /\ stamina' <= maxStamina
       /\ weaponFrame'.melee =>
            /\ currentWeapon.type = "melee"
            /\ stamina >= currentWeapon.staminaCost
            /\ weaponFrame'.drained = currentWeapon.staminaCost
       /\ ~weaponFrame'.melee => weaponFrame'.drained = 0
       /\ (currentWeapon.type = "melee" /\ stamina < currentWeapon.staminaCost) =>
            /\ ~weaponFrame'.melee
            /\ attackCooldown' = Max(0, attackCooldown - frameDelta)]_vars

\* a swing that has hit the zombie, made with 12 stamina
SwingCostsStaminaWitness ==
  /\ weaponFrame.melee
  /\ weaponFrame.drained = 10
  /\ lastOp.op = "damage" /\ ~lastOp.ignored
  /\ weaponFrame.n = 1
  /\ stamina < 10

\* C31: spawnEnemy(type, position) adds exactly one record, under the id it
\* returns: stats of the type's configuration, health = maxHealth, state PATROL,
\* target null, currentPatrolIndex 0, attackCooldown 0, alertTime 0 and 4 patrol
\* points; every record that was in the store is unchanged.
SpawnAddsOneRecord ==
  [][lastOp'.op = "spawn"
       => LET id == lastOp'.id
              enemy == enemies'[id]
              config == ENEMY_CONFIGS[enemy.type]
          IN /\ id \notin DOMAIN enemies
             /\ DOMAIN enemies' = DOMAIN enemies \cup {id}
             /\ \A k \in DOMAIN enemies : enemies'[k] = enemies[k]
             /\ enemy.id = id
             /\ enemy.type \in EnemyType
             /\ \A f \in DOMAIN config : enemy.stats[f] = config[f]
             /\ DOMAIN enemy.stats = DOMAIN config \cup {"health"}
             /\ enemy.stats.health = enemy.stats.maxHealth
             /\ enemy.state = PATROL
             /\ enemy.target = NoTarget
             /\ enemy.currentPatrolIndex = 0
             /\ enemy.attackCooldown = 0
             /\ enemy.alertTime = 0
             /\ Len(enemy.patrolPoints) = 4]_vars

\* a bandit has just been spawned into a store that held a zombie
SpawnAddsOneRecordWitness ==
  /\ lastOp.op = "spawn"
  /\ lastOp.id \in DOMAIN enemies
  /\ enemies[lastOp.id].type = BANDIT
  /\ \E k \in DOMAIN enemies : enemies[k].type = ZOMBIE

\* C32: a projectile damages at most one enemy in its whole lifetime: no frame
\* callback of a Projectile calls damageEnemy for more than one enemy, also with
\* several living enemies within the hit radius, and all the shots fired have
\* made no more damage events than there are shots
OneEnemyPerProjectile ==
  /\ combat.kind = "projectile" => Len(combat.hits) <= 1
  /\ Len(damageEvents) <= shots

MissedAttackCostsCooldown ==
  [][Tick =>
       LET e == comps[AIId].ai
           after == comps'[AIId].ai
           cooldown == IF e.attackCooldown > 0
                       THEN e.attackCooldown - combat'.delta
                       ELSE e.attackCooldown
       IN (/\ e.state = ATTACK
           /\ cooldown <= 0
           /\ 5 * e.stats.health >= e.stats.maxHealth
           /\ DistGt(e.position, playerPosition, e.stats.attackRange * Scale)
           /\ ~DistGt(e.position, playerPosition,
                      (11 * e.stats.attackRange * Scale) \div 10))
            => /\ combat'.hit = 0
               /\ playerHealth' = playerHealth
               /\ after.attackCooldown = 10000 \div e.stats.attackSpeed
               /\ after.state = ATTACK]_vars

\* a zombie 2.1 m from the player has missed for the second time, its cooldown
\* of 1.25 s run out in between, and has not yet hurt the player
MissedAttackCostsCooldownWitness ==
  /\ TickedFrom(ATTACK)
  /\ combat.hit = 0
  /\ combat.before.attackCooldown > 0
  /\ combat.before.attackCooldown - combat.delta <= 0
  /\ DistGt(combat.before.position, combat.player,
            combat.before.stats.attackRange * Scale)
  /\ comps[AIId].ai.state = ATTACK
  /\ comps[AIId].ai.attackCooldown = 10000 \div combat.before.stats.attackSpeed
  /\ playerHealth = 100

\* C36: between two consecutive steps in which one enemy hits the player at
\* least 1 / attackSpeed seconds of frame time pass (zombie 1.25 s, bandit 1 s),
\* whatever the frame deltas, the player's movements and the enemy's states in
\* between
HitsCooldownApart ==
  (combat.kind = "tick" /\ combat.hit > 0 /\ combat.lastHit >= 0)
    => now - combat.lastHit >= 10000 \div combat.before.stats.attackSpeed

\* a zombie has hit the player a second time, 1.3 s after the first
HitsCooldownApartWitness ==
  /\ lastOp.op = "tick"
  /\ combat.kind = "tick"
  /\ combat.hit > 0
  /\ combat.lastHit >= 0
  /\ now - combat.lastHit = 1300
  /\ combat.before.type = ZOMBIE
  /\ combat.before.state = ATTACK
  /\ playerHealth = 70

\* v and w point the same way, up to the rounding of v's coordinates
SameDirection(v, w) ==
  LET len == Isqrt(LengthSq(w))
  IN /\ Dot(v, w) > 0
     /\ Abs(v.x * w.y - v.y * w.x) <= 2 * len
     /\ Abs(v.y * w.z - v.z * w.y) <= 2 * len
     /\ Abs(v.z * w.x - v.x * w.z) <= 2 * len

\* C37: a step in CHASE with health >= 20% of maxHealth and the player farther
\* than attackRange: beyond 1.5 * detectionRange it clears the target and goes
\* to PATROL without moving the enemy; otherwise the state stays CHASE and the
\* enemy moves straight toward the player by speed * delta
ChaseClosesInOrGivesUp ==
  [][(/\ TickFrom(CHASE)
      /\ 5 * comps[AIId].ai.stats.health >= comps[AIId].ai.stats.maxHealth
      /\ DistGt(comps[AIId].ai.position, playerPosition,
                comps[AIId].ai.stats.attackRange * Scale))
       => LET e == comps[AIId].ai
              after == comps'[AIId].ai
              moved == SubVectors(after.position, e.position)
              step == (e.stats.speed * combat'.delta * Scale) \div 1000
          IN IF DistGt(e.position, playerPosition,
                       (3 * e.stats.detectionRange * Scale) \div 2)
             THEN /\ after.state = PATROL
                  /\ after.target = NoTarget
                  /\ after.position = e.position
             ELSE /\ after.state = CHASE
                  /\ after.target = e.target
                  /\ SameDirection(moved, SubVectors(playerPosition, e.position))
                  /\ Abs(Isqrt(LengthSq(moved)) - step) <= 1]_vars

\* a zombie that has begun 10 m from the player has come 1.5 m closer in a
\* CHASE step of 0.5 s, and is still chasing
ChaseClosesInOrGivesUpWitness ==
  /\ TickedFrom(CHASE)
  /\ combat.before.type = ZOMBIE
  /\ combat.delta = 500
  /\ combat.player = Vec(30 * Scale, Scale, 0)
  /\ combat.before.position = AISpawn
  /\ comps[AIId].ai.state = CHASE
  /\ comps[AIId].ai.position = Vec(2150, Scale, 0)

FleeStepRunsAway ==
  [][(/\ lastOp'.op = "frame"
      /\ ~lastOp'.ignored
      /\ comps[AIId].ai.state = FLEE
      /\ comps[AIId].ai.position # playerPosition)
       => LET e == comps[AIId].ai
              after == comps'[AIId].ai
              moved == SubVectors(after.position, e.position)
              step == (3 * e.stats.speed * frameDelta * Scale) \div 2000
          IN /\ SameDirection(moved, SubVectors(e.position, playerPosition))
             /\ Abs(Isqrt(LengthSq(moved)) - step) <= 1
             /\ after.state \in {FLEE, PATROL}
             /\ after.state = PATROL <=>
                  \/ DistGt(after.position, playerPosition,
                            2 * e.stats.detectionRange * Scale)
                  \/ 2 * e.stats.health > e.stats.maxHealth]_vars

FleeEndsAwayFromPlayer ==
  (/\ AIId \in DOMAIN comps
   /\ comps[AIId].ai.state = FLEE
   /\ comps[AIId].ai.position # playerPosition)
    ~> (AIId \in DOMAIN comps /\ comps[AIId].ai.state = PATROL)

\* the controller of the enemy is in PATROL and its patrol step of half a
\* second, 0.5 * speed * delta, is smaller than 1
PatrollingInSmallSteps ==
  /\ AIId \in DOMAIN comps
  /\ comps[AIId].ai.state = PATROL
  /\ \A delta \in FleeDeltas : comps[AIId].ai.stats.speed * delta < 2000

\* a step of the patrol, within 1 unit of the patrol point before point i, has
\* just made point i the one the enemy is heading for
TurnedTo(i) ==
  /\ PatrollingInSmallSteps
  /\ lastOp.op = "frame"
  /\ comps[AIId].ai.currentPatrolIndex = i
  /\ DistLt(comps[AIId].ai.position,
            comps[AIId].ai.patrolPoints[((i + 3) % 4) + 1], Scale)

\* C39: with the player out of sight for good and a patrol step smaller than
\* 1, a patrolling enemy comes within 1 unit of the patrol point it is heading
\* for and advances currentPatrolIndex, again and again, so that every patrol
\* point is targeted infinitely often; in the step that advances the index
\* the enemy does not move
PatrolGoesRound ==
  /\ PatrollingInSmallSteps ~> TurnedTo(0)
  /\ PatrollingInSmallSteps ~> TurnedTo(1)
  /\ PatrollingInSmallSteps ~> TurnedTo(2)
  /\ PatrollingInSmallSteps ~> TurnedTo(3)
  /\ [][(/\ lastOp'.op = "frame"
         /\ PatrollingInSmallSteps
         /\ comps'[AIId].ai.currentPatrolIndex # comps[AIId].ai.currentPatrolIndex)
          => comps'[AIId].ai.position = comps[AIId].ai.position]_vars

\* a zombie on patrol has just come round to its first patrol point again: the
\* step has taken the index from 3 to 0 within 1 m of the fourth point
PatrolGoesRoundWitness ==
  /\ PatrollingInSmallSteps
  /\ lastOp.op = "frame"
  /\ comps[AIId].ai.currentPatrolIndex = 0
  /\ enemies[AIId].currentPatrolIndex = 0
  /\ DistLt(comps[AIId].ai.position, comps[AIId].ai.patrolPoints[4], Scale)
  /\ comps[AIId].ai.position # AISpawn

=============================================================================
